---------------------------- MODULE Spec2Model ----------------------------
(***************************************************************************)
(* A model of the storm-simulation pipeline: the buffered output stream,   *)
(* the serial and multiprocessing fanouts and the run_losses trial of      *)
(* functions/generate_losses.py and functions/simulation_output.py.        *)
(*                                                                         *)
(* The module holds several specifications over one set of variables.      *)
(* Each specification drives one component and leaves the variables of the *)
(* other components at their initial values.                               *)
(***************************************************************************)
EXTENDS Integers, Sequences, FiniteSets, TLC

VARIABLES
    \* ---- BufferedOutputStream (simulation_output.py, 202-279) ----
    buffer,                 \* self.buffer: the defaultdict(list), in key insertion order
    total_in_buffer,        \* self.total_in_buffer
    per_output_max_rows,    \* self.per_output_max_rows
    total_buffer_max_rows,  \* self.total_buffer_max_rows
    scope,                  \* where the stream's user is: constructed, entered, raising,
                            \* exited, flushed, raised
    sendCalls,              \* the calls the stream made to outputs.send, in order
    addCalls,               \* history: the calls made to add, in order
    flushCalls,             \* history: how many times flush was called
    epochStart,             \* history: Len(addCalls) when the buffer was last re-created
    lastCall,               \* history: the last call on the stream and the state it started from
    nextRow,                \* the next unused row id
    sendFailures,           \* how many outputs.send calls have raised
    \* ---- OutputFanout and its RowWriters (simulation_output.py, 96-200) ----
    fanout,                 \* the fanout built: none, serial (SerialOutput), multi
                            \* (MultiprocessingOutput)
    output_writers,         \* the list of RowWriters, in registration order
    writerCalls,            \* the calls made on the RowWriters, in order, each with the
                            \* process that made it
    output_queue,           \* the multiprocessing queue of MultiprocessingOutput
    consumer,               \* process_queue: notStarted, running, done, crashed
    fanoutSends,            \* history: the calls made to the fanout's send and stop
    dequeued,               \* history: the messages process_queue took off the queue
    writerFailures          \* how many write_rows calls have raised

bufVars == <<buffer, total_in_buffer, per_output_max_rows, total_buffer_max_rows, scope,
             sendCalls, addCalls, flushCalls, epochStart, lastCall, sendFailures>>

VARIABLES
    \* ---- run_losses ----
    pc,                   \* where the current attempt of run_losses is
    attempt,              \* attempt number of tenacity.retry, from 1
    output_schema_version,
    states,               \* the list of states, shuffled in place
    stateIdx,             \* position of `for loss_state in states`
    sampled,              \* properties the cursor curr_props has yielded for loss_state
    curr_limit,           \* curr_prop['limit'] of the last property added
    exposure_dictionary,
    premium_dictionary,
    loss_dictionary,
    exposures,            \* the features appended, as their properties
    storms,               \* the polygons appended, as the exposures each one contains
    limit,                \* randint(950, 2050), scaled down
    phases,               \* history: the values pc has taken in the current attempt
    attempts,             \* history: the attempts that are over
    providerFailures,     \* history: exceptions raised by MongoDB and by the storm generator
    limits,               \* input: the limits the sampled properties have
    maxProps,             \* input: the most properties one $sample yields
    provided              \* history: the properties the cursors of the current attempt
                          \* yielded, each with whether it was added

runVars == <<pc, attempt, output_schema_version, states, stateIdx, sampled, curr_limit,
             exposure_dictionary, premium_dictionary, loss_dictionary, exposures, storms,
             limit, phases, attempts, providerFailures, limits, maxProps, provided>>

fanVars == <<fanout, output_writers, writerCalls, output_queue, consumer, fanoutSends,
             dequeued, writerFailures>>

VARIABLES
    \* ---- simulation_logging.py ----
    logging_queue,        \* the queue of log records; None is the stop signal
    loggerThread,         \* LoggerThread: notStarted, running, done
    handled,              \* the records LoggerThread.run gave to logger.handle, in order
    logPuts,              \* history: everything put on logging_queue, in order
    rootHandlers,         \* logging.getLogger().handlers of the process calling get_logger
    lockOwner,            \* the thread holding logger_lock, or "free"
    getLoggerPc,          \* where each thread is in get_logger
    getLoggerCalls,       \* history: get_logger calls that have returned
    nextRecord            \* the next unused log record id

logVars == <<logging_queue, loggerThread, handled, logPuts, rootHandlers, lockOwner,
             getLoggerPc, getLoggerCalls, nextRecord>>

VARIABLES
    \* ---- main of generate_losses.py ----
    mainPc,               \* where main is
    trial                 \* the state of each simulation given to map / imap_unordered

drvVars == <<mainPc, trial>>

VARIABLES
    \* ---- gcp/bigquery.py ----
    stream_batch,         \* BigqueryInsertStream.batch
    stream_total,         \* BigqueryInsertStream.total
    batch_size,           \* BigqueryInsertStream.batch_size
    streamScope,          \* where the stream's user is: constructed, entered, raising, exited
    physicalCalls,        \* history: the calls of client.insert_rows and what each reported
    insertRowsCalls,      \* history: the calls of Bigquery.insert_rows and what each returned
    streamOps,            \* history: the calls on the stream, each with the state it started
                          \* from and how it ended
    writeRowsReturns      \* history: the calls of BigqueryRowWriter.write_rows

bqVars == <<stream_batch, stream_total, batch_size, streamScope, physicalCalls,
            insertRowsCalls, streamOps, writeRowsReturns>>

VARIABLES
    \* ---- pure functions: generate_loss_ratio, format_column_name_for_output,
    \*      geo_types.str_to_int and int_to_str ----
    fnCall,               \* the function called and its arguments
    fnResult              \* what it returned; NotReturned before

fnVars == <<fnCall, fnResult>>

VARIABLES
    \* ---- LocalCsvWriter (simulation_output.py, 282-352) ----
    csvState,             \* notConstructed, constructed, initialized, initializationError
    overwrite,            \* the argument of __init__
    existing,             \* the output kinds whose file exists
    existsCalls,          \* history: the kinds os.path.exists was asked about, in order
    file_writers,         \* LocalCsvWriter.file_writers: the open files, with their fieldnames
    openCalls,            \* history: the kinds whose file was opened, in order
    files,                \* the lines of the file at each path, in order
    csvWriteCalls         \* history: the calls of write_rows

csvVars == <<csvState, overwrite, existing, existsCalls, file_writers, openCalls, files,
             csvWriteCalls>>

VARIABLES
    \* ---- main.py: run_storm_simulation ----
    cloud_event,          \* the inbound event and what its processing will meet
    eventPc,              \* received, decoded, started, returned, raised
    eventLog,             \* history: the errors and warnings logged for the event
    \* ---- main.py: _trigger_simulations ----
    trigger_request,      \* the arguments of _trigger_simulations and SKIP_PUBSUB
    triggerPc,            \* none, requested, returned
    published,            \* the messages published on the topic, in order
    deliveries            \* how many of them were handed to run_storm_simulation

trgVars == <<trigger_request, triggerPc, published, deliveries>>
evtVars == <<cloud_event, eventPc, eventLog, trgVars>>

\* The three components above.
auxVars == <<fnVars, csvVars, evtVars>>

vars == <<nextRow, bufVars, fanVars, runVars, logVars, drvVars, bqVars, auxVars>>

\* What the actions of one component leave unchanged: the other components.
notBuf == <<fanVars, runVars, logVars, drvVars, bqVars, auxVars>>
notFan == <<bufVars, runVars, logVars, drvVars, bqVars, auxVars>>
notRun == <<nextRow, bufVars, fanVars, logVars, drvVars, bqVars, auxVars>>
notRunNorFan == <<nextRow, bufVars, logVars, drvVars, bqVars, auxVars>>
notLog == <<nextRow, bufVars, fanVars, runVars, drvVars, bqVars, auxVars>>
notBigquery == <<bufVars, fanVars, runVars, logVars, drvVars, auxVars>>
notDriver == <<nextRow, bufVars, fanVars, runVars, logVars, bqVars, auxVars>>
notAux == <<nextRow, bufVars, fanVars, runVars, logVars, drvVars, bqVars>>

\* The variables of the components a specification does not drive.
NotReturned == [returned |-> FALSE]

FunctionsUnused ==
    /\ fnCall = <<>>
    /\ fnResult = NotReturned

CsvUnused ==
    /\ csvState = "notConstructed"
    /\ overwrite = FALSE
    /\ existing = {}
    /\ existsCalls = <<>>
    /\ file_writers = <<>>
    /\ openCalls = <<>>
    /\ files = <<>>
    /\ csvWriteCalls = <<>>

TriggerUnused ==
    /\ trigger_request = <<>>
    /\ triggerPc = "none"
    /\ published = <<>>
    /\ deliveries = 0

HandlerUnused ==
    /\ cloud_event = <<>>
    /\ eventPc = "none"
    /\ eventLog = <<>>
    /\ TriggerUnused

LoggingUnused ==
    /\ logging_queue = <<>>
    /\ loggerThread = "notStarted"
    /\ handled = <<>>
    /\ logPuts = <<>>
    /\ rootHandlers = <<>>
    /\ lockOwner = "free"
    /\ getLoggerPc = <<>>
    /\ getLoggerCalls = <<>>
    /\ nextRecord = 1

DriverUnused ==
    /\ mainPc = "notStarted"
    /\ trial = <<>>

BigqueryUnused ==
    /\ stream_batch = <<>>
    /\ stream_total = 0
    /\ batch_size = 0
    /\ streamScope = "none"
    /\ physicalCalls = <<>>
    /\ insertRowsCalls = <<>>
    /\ streamOps = <<>>
    /\ writeRowsReturns = <<>>

-----------------------------------------------------------------------------
(* Bounds of the model. *)

MaxAdds == 3            \* add calls made on one stream
MaxRowsPerAdd == 2      \* rows handed to one add call
MaxSendFailures == 1    \* outputs.send calls that raise
MaxSends == 3           \* send calls made on a fanout
MaxWriterFailures == 1  \* write_rows calls that raise
MaxProps == 2           \* properties one $sample yields for one state
MaxProviderFailures == 1 \* exceptions raised by MongoDB and by the storm generator
MaxStormLimit == 1      \* the largest `limit` drawn for the number of storms
MaxLogRecords == 2      \* log records emitted
MaxGetLoggerCalls == 3  \* calls of get_logger in one process
MaxTrialLogs == 1       \* log records emitted by the simulations that main runs
MaxBatchSize == 3       \* the largest batch_size of a BigqueryInsertStream
MaxInsertErrors == 5    \* the most physical inserts in a row that report errors
MaxStreamCalls == 3     \* calls of insert and flush on a BigqueryInsertStream
MaxWriteRows == 2       \* calls of BigqueryRowWriter.write_rows
MaxRatioPremium == 7    \* the largest of the small premiums given to generate_loss_ratio
MaxRatioLoss == 9       \* the largest of the small losses given to generate_loss_ratio
MaxNameLen == 2         \* the longest column name given to format_column_name_for_output
MaxGeoCode == 5         \* the largest integer given to int_to_str
MaxCsvWrites == 2       \* calls of LocalCsvWriter.write_rows
MaxNumSims == 2         \* the largest num_sims of a trigger request

-----------------------------------------------------------------------------
(* Program constants. *)

OUTPUT_EXPOSURES == "exposures"
OUTPUT_PREMIUMS == "premiums"
OUTPUT_LOSSES == "losses"
OUTPUT_NLR == "nlr"
ALL_OUTPUTS == <<OUTPUT_EXPOSURES, OUTPUT_PREMIUMS, OUTPUT_LOSSES, OUTPUT_NLR>>

DEFAULT_PER_OUTPUT_MAX_ROWS == 500
DEFAULT_TOTAL_BUFFER_MAX_ROWS == 5000

SIMULATION_MAX_RETRIES == 3
FLAT_ROW_OUTPUT_SCHEMA_VERSION == 1
GEO_TYPE_ROW_OUTPUT_SCHEMA_VERSION == 2
DEFAULT_OUTPUT_SCHEMA_VERSION == GEO_TYPE_ROW_OUTPUT_SCHEMA_VERSION

total_agg_limit == 200000000
state_agg_limit == 80000000
county_agg_limit == 30000000
zip_agg_limit == 5000000
\* The margin below a ceiling at which sampling stops.
CEILING_MARGIN == 15000
\* Line 437.
payout == 10000

\* The keys of loss_dictionary kept by the model, in the order of the literal.
STATE_KEYS == <<"AR", "GA", "IA">>
COUNTY_KEYS == <<"Stone", "Black Hawk", "Walker">>
ZIP_KEYS == <<"72560", "50613", "30741">>

-----------------------------------------------------------------------------
(* Helpers on sequences. *)

Range(s) == {s[i] : i \in 1..Len(s)}

\* The orders random.shuffle can leave a list in.
Shuffles(s) ==
    {t \in [1..Len(s) -> Range(s)] : \A i \in 1..Len(s) : \E j \in 1..Len(s) : t[j] = s[i]}

RECURSIVE Flatten(_)
Flatten(ss) == IF ss = <<>> THEN <<>> ELSE Head(ss) \o Flatten(Tail(ss))

IsPrefix(s, t) == Len(s) <= Len(t) /\ SubSeq(t, 1, Len(s)) = s

\* The rows nextRow .. nextRow+n-1 as a list.
FreshRows(from, n) == [i \in 1..n |-> from + i - 1]

-----------------------------------------------------------------------------
(* A `rows` argument: Union[Iterable[dict], dict].  A single dict row and a *)
(* list of rows are told apart by isDict; items holds the rows.             *)

DictOf(row) == [isDict |-> TRUE, items |-> <<row>>]
ListOf(rowList) == [isDict |-> FALSE, items |-> rowList]

-----------------------------------------------------------------------------
(* BufferedOutputStream *)

\* The output kinds the stream's user writes to.
StreamOutputs == {OUTPUT_EXPOSURES, OUTPUT_PREMIUMS, OUTPUT_LOSSES}

\* The (per_output_max_rows, total_buffer_max_rows) pairs a stream is built with:
\* the two of the tests (one threshold lowered to 2, the other at its default) and
\* one with both thresholds low.
ThresholdChoices == {<<2, DEFAULT_TOTAL_BUFFER_MAX_ROWS>>,
                     <<DEFAULT_PER_OUTPUT_MAX_ROWS, 2>>,
                     <<2, 3>>}

\* add, lines 261-262: a dict becomes a list of one row.
AsRowList(rows) == IF rows.isDict THEN <<rows.items[1]>> ELSE rows.items

\* The rows buffered for output_name (the defaultdict's value; [] when absent).
BufferedRows(buf, output_name) ==
    IF \E i \in 1..Len(buf) : buf[i].name = output_name
    THEN buf[CHOOSE i \in 1..Len(buf) : buf[i].name = output_name].rows
    ELSE <<>>

ExtendPrepends(buf, output_name, rowList) ==
    IF \E i \in 1..Len(buf) : buf[i].name = output_name
    THEN [i \in 1..Len(buf) |->
            IF buf[i].name = output_name
            THEN [name |-> output_name, rows |-> rowList \o buf[i].rows]
            ELSE buf[i]]
    ELSE Append(buf, [name |-> output_name, rows |-> rowList])

\* add, line 263: self.buffer[output_name].extend(rows).  Reading the key of a
\* defaultdict inserts it, also when rows is empty.
BufferExtend(buf, output_name, rowList) ==
    IF \E i \in 1..Len(buf) : buf[i].name = output_name
    THEN [i \in 1..Len(buf) |->
            IF buf[i].name = output_name
            THEN [name |-> output_name, rows |-> buf[i].rows \o rowList]
            ELSE buf[i]]
    ELSE Append(buf, [name |-> output_name, rows |-> rowList])

ReachedMaxStrict(buf, total, output_name, perMax, totalMax) ==
    \/ Len(BufferedRows(buf, output_name)) > perMax
    \/ total > totalMax

\* add, lines 266-267: the condition under which add flushes.
ReachedMax(buf, total, output_name, perMax, totalMax) ==
    \/ Len(BufferedRows(buf, output_name)) >= perMax
    \/ total >= totalMax

FlushEntriesWithEmpty(buf) == buf

\* flush, lines 271-274: the entries flush sends, in the dict's order; an entry
\* without rows is skipped.
FlushEntries(buf) == SelectSeq(buf, LAMBDA e : e.rows # <<>>)

\* The outcomes of one flush: failAt = 0 when every send returns, and i when the
\* i-th send raises (the sends after it are not made).
FlushOutcomes(buf, failuresLeft) ==
    {0} \cup (IF failuresLeft > 0 THEN 1..Len(FlushEntries(buf)) ELSE {})

\* flush, lines 270-275, on buffer buf with outcome failAt: the sends made, and
\* the buffer and counter it leaves.  _init_buffer (277-279) runs only when no
\* send raised.
FlushResult(buf, total, failAt) ==
    LET entries == FlushEntries(buf)
        n == IF failAt = 0 THEN Len(entries) ELSE failAt
    IN [sends  |-> [i \in 1..n |-> [name |-> entries[i].name,
                                   rows |-> ListOf(entries[i].rows),
                                   raised |-> (i = failAt)]],
        raised |-> (failAt # 0),
        buffer |-> IF failAt = 0 THEN <<>> ELSE buf,
        total  |-> IF failAt = 0 THEN 0 ELSE total]

NoCall == [op |-> "none", raised |-> FALSE, flushed |-> FALSE, bodyRaised |-> FALSE,
           sendsBefore |-> 0, flushesBefore |-> 0, epochBefore |-> 0, name |-> ""]

\* loss_dictionary as run_losses builds it: every total 0.
EmptyDictionary ==
    [total |-> 0,
     state |-> [k \in Range(STATE_KEYS) |-> 0],
     county |-> [k \in Range(COUNTY_KEYS) |-> 0],
     zip |-> [k \in Range(ZIP_KEYS) |-> 0]]

\* The run_losses variables of a specification that runs no simulation.
RunLossesUnused ==
    /\ pc = "notCalled"
    /\ attempt = 0
    /\ output_schema_version = DEFAULT_OUTPUT_SCHEMA_VERSION
    /\ states = <<>>
    /\ stateIdx = 0
    /\ sampled = 0
    /\ curr_limit = 0
    /\ exposure_dictionary = EmptyDictionary
    /\ premium_dictionary = EmptyDictionary
    /\ loss_dictionary = EmptyDictionary
    /\ exposures = <<>>
    /\ storms = <<>>
    /\ limit = 0
    /\ phases = <<>>
    /\ attempts = <<>>
    /\ providerFailures = 0
    /\ limits = {}
    /\ maxProps = 0
    /\ provided = <<>>

\* The fanout variables of a specification that builds no fanout.
FanoutUnused ==
    /\ fanout = "none"
    /\ output_writers = <<>>
    /\ writerCalls = <<>>
    /\ output_queue = <<>>
    /\ consumer = "notStarted"
    /\ fanoutSends = <<>>
    /\ dequeued = <<>>
    /\ writerFailures = 0

InitBuffered ==
    /\ FunctionsUnused
    /\ CsvUnused
    /\ HandlerUnused
    /\ buffer = <<>>
    /\ total_in_buffer = 0
    /\ \E t \in ThresholdChoices :
          /\ per_output_max_rows = t[1]
          /\ total_buffer_max_rows = t[2]
    /\ scope = "constructed"
    /\ sendCalls = <<>>
    /\ addCalls = <<>>
    /\ flushCalls = 0
    /\ epochStart = 0
    /\ lastCall = NoCall
    /\ nextRow = 1
    /\ sendFailures = 0
    /\ FanoutUnused
    /\ RunLossesUnused
    /\ LoggingUnused
    /\ DriverUnused
    /\ BigqueryUnused

\* The state flush leaves, for the outcome failAt, called from operation op on
\* the buffer buf.
ApplyFlush(op, buf, total, failAt, name, bodyRaised, nAdds) ==
    LET r == FlushResult(buf, total, failAt)
    IN /\ buffer' = r.buffer
       /\ total_in_buffer' = r.total
       /\ sendCalls' = sendCalls \o r.sends
       /\ flushCalls' = flushCalls + 1
       /\ sendFailures' = sendFailures + (IF r.raised THEN 1 ELSE 0)
       /\ epochStart' = IF r.raised THEN epochStart ELSE nAdds
       /\ lastCall' = [op |-> op, raised |-> r.raised, flushed |-> TRUE,
                       bodyRaised |-> bodyRaised,
                       sendsBefore |-> Len(sendCalls), flushesBefore |-> flushCalls,
                       epochBefore |-> epochStart, name |-> name]

\* __enter__, lines 252-254.
Enter ==
    /\ scope = "constructed"
    /\ addCalls = <<>>
    /\ scope' = "entered"
    /\ buffer' = <<>>
    /\ total_in_buffer' = 0
    /\ epochStart' = Len(addCalls)
    /\ lastCall' = [NoCall EXCEPT !.op = "enter"]
    /\ UNCHANGED <<per_output_max_rows, total_buffer_max_rows, sendCalls, addCalls,
                   flushCalls, nextRow, sendFailures>>
    /\ UNCHANGED notBuf

\* add, lines 260-268.  An exception of flush leaves add: inside a with block it
\* leaves the block (raising), outside of one it goes to the caller of add, which
\* uses the stream no further (raised; no caller in the program catches it).
Add(output_name, rows) ==
    /\ scope \in {"constructed", "entered"}
    /\ Len(addCalls) < MaxAdds
    /\ LET rowList == AsRowList(rows)
           buf1 == BufferExtend(buffer, output_name, rowList)
           total1 == total_in_buffer + Len(rowList)
       IN /\ addCalls' = Append(addCalls, [name |-> output_name, rows |-> rowList])
          /\ nextRow' = nextRow + Len(rowList)
          /\ IF ReachedMax(buf1, total1, output_name,
                           per_output_max_rows, total_buffer_max_rows)
             THEN \E failAt \in FlushOutcomes(buf1, MaxSendFailures - sendFailures) :
                    /\ ApplyFlush("add", buf1, total1, failAt, output_name, FALSE,
                                  Len(addCalls) + 1)
                    /\ scope' = IF failAt = 0 THEN scope
                                ELSE IF scope = "entered" THEN "raising" ELSE "raised"
             ELSE /\ buffer' = buf1
                  /\ total_in_buffer' = total1
                  /\ lastCall' = [NoCall EXCEPT !.op = "add", !.name = output_name,
                                                !.sendsBefore = Len(sendCalls),
                                                !.flushesBefore = flushCalls,
                                                !.epochBefore = epochStart]
                  /\ UNCHANGED <<scope, sendCalls, flushCalls, epochStart, sendFailures>>
    /\ UNCHANGED <<per_output_max_rows, total_buffer_max_rows>>
    /\ UNCHANGED notBuf

\* The user of the stream calls add with a dict row or with a list of rows.
AddCall ==
    \E output_name \in StreamOutputs :
        \/ Add(output_name, DictOf(nextRow))
        \/ \E n \in 0..MaxRowsPerAdd : Add(output_name, ListOf(FreshRows(nextRow, n)))

\* flush, lines 270-275, called by a user that does not wrap the stream in a with
\* block, after its last add (the second usage of the class's docstring, lines
\* 218-223).
Flush ==
    /\ scope = "constructed"
    /\ addCalls # <<>>
    /\ \E failAt \in FlushOutcomes(buffer, MaxSendFailures - sendFailures) :
          /\ scope' = IF failAt = 0 THEN "flushed" ELSE "raised"
          /\ ApplyFlush("flush", buffer, total_in_buffer, failAt, "", FALSE,
                     Len(addCalls))
    /\ UNCHANGED <<per_output_max_rows, total_buffer_max_rows, addCalls, nextRow>>
    /\ UNCHANGED notBuf

\* The body of the with block raises for a reason of its own.
BodyRaises ==
    /\ scope = "entered"
    /\ scope' = "raising"
    /\ lastCall' = [NoCall EXCEPT !.op = "raise"]
    /\ UNCHANGED <<buffer, total_in_buffer, per_output_max_rows, total_buffer_max_rows,
                   sendCalls, addCalls, flushCalls, epochStart, nextRow, sendFailures>>
    /\ UNCHANGED notBuf

ExitSkipsFlushOnError ==
    /\ scope \in {"entered", "raising"}
    /\ scope' = "exited"
    /\ IF scope = "raising"
       THEN /\ lastCall' = [NoCall EXCEPT !.op = "exit", !.bodyRaised = TRUE,
                                         !.sendsBefore = Len(sendCalls),
                                         !.flushesBefore = flushCalls,
                                         !.epochBefore = epochStart]
            /\ UNCHANGED <<buffer, total_in_buffer, sendCalls, flushCalls, epochStart,
                           sendFailures>>
       ELSE \E failAt \in FlushOutcomes(buffer, MaxSendFailures - sendFailures) :
               ApplyFlush("exit", buffer, total_in_buffer, failAt, "", FALSE, Len(addCalls))
    /\ UNCHANGED <<per_output_max_rows, total_buffer_max_rows, addCalls, nextRow>>
    /\ UNCHANGED notBuf

\* __exit__, lines 256-258: flush, whatever exc_type is.
Exit ==
    /\ scope \in {"entered", "raising"}
    /\ scope' = "exited"
    /\ \E failAt \in FlushOutcomes(buffer, MaxSendFailures - sendFailures) :
          ApplyFlush("exit", buffer, total_in_buffer, failAt, "", scope = "raising",
                     Len(addCalls))
    /\ UNCHANGED <<per_output_max_rows, total_buffer_max_rows, addCalls, nextRow>>
    /\ UNCHANGED notBuf

NextBuffered ==
    \/ Enter
    \/ AddCall
    \/ Flush
    \/ BodyRaises
    \/ Exit

SpecBuffered == InitBuffered /\ [][NextBuffered]_vars

-----------------------------------------------------------------------------
(* RowWriters and the two OutputFanouts *)

\* The writers main sets up: setup_csv_writer and setup_bigquery_writer.
Writers == {"csv", "bigquery"}

\* The lists of writers a fanout is given: none, one, or both in either order.
WriterLists ==
    {ws \in UNION {[1..n -> Writers] : n \in 0..Cardinality(Writers)} :
        \A i, j \in 1..Len(ws) : i # j => ws[i] # ws[j]}


STOP_SIGNAL == "__STOP_PROCESSING__"

\* What is put on the output queue: the tuple (output_name, rows) of send, or the
\* string of stop.
TupleMessage(output_name, rows) ==
    [isStr |-> FALSE, str |-> "", name |-> output_name, rows |-> rows]
StrMessage(str) ==
    [isStr |-> TRUE, str |-> str, name |-> "", rows |-> ListOf(<<>>)]

\* One call on a RowWriter, made by process by.
LazyInitializeCall(writer, by) ==
    [writer |-> writer, op |-> "lazy_initialize", name |-> "", rows |-> ListOf(<<>>),
     raised |-> FALSE, by |-> by]
WriteRowsCall(writer, output_name, rows, raised, by) ==
    [writer |-> writer, op |-> "write_rows", name |-> output_name, rows |-> rows,
     raised |-> raised, by |-> by]

\* `for writer in output_writers: writer.lazy_initialize()`, lines 144-145 and
\* 185-188.
InitializeWriters(writers, by) ==
    [i \in 1..Len(writers) |-> LazyInitializeCall(writers[i], by)]

WriteToWritersReversed(writers, output_name, rows, failAt, by) ==
    LET n == IF failAt = 0 THEN Len(writers) ELSE failAt
    IN [i \in 1..n |-> WriteRowsCall(writers[Len(writers) + 1 - i], output_name, rows,
                                     i = failAt, by)]

WriteToWritersRowByRow(writers, output_name, rows, failAt, by) ==
    LET n == IF failAt = 0 THEN Len(writers) ELSE failAt
    IN Flatten([i \in 1..n |->
          [r \in 1..Len(rows.items) |->
              WriteRowsCall(writers[i], output_name, ListOf(<<rows.items[r]>>),
                            i = failAt /\ r = Len(rows.items), by)]])

\* `for writer in output_writers: writer.write_rows(output_name, rows)`, lines
\* 149-150 and 197-198; failAt = 0 when every write_rows returns, and i when that
\* of the i-th writer raises (the loop then ends).
WriteToWriters(writers, output_name, rows, failAt, by) ==
    LET n == IF failAt = 0 THEN Len(writers) ELSE failAt
    IN [i \in 1..n |-> WriteRowsCall(writers[i], output_name, rows, i = failAt, by)]

WriteOutcomes(writers, failuresLeft) ==
    {0} \cup (IF failuresLeft > 0 THEN 1..Len(writers) ELSE {})

\* The arguments (output_name, rows) a caller of send passes: a list of rows as
\* BufferedOutputStream.flush sends it, or the one dict of the NLR row.
SendArguments(from) ==
    {<<OUTPUT_PREMIUMS, ListOf(FreshRows(from, 2))>>, <<OUTPUT_NLR, DictOf(from)>>}

BufferedUnused ==
    /\ buffer = <<>>
    /\ total_in_buffer = 0
    /\ per_output_max_rows = DEFAULT_PER_OUTPUT_MAX_ROWS
    /\ total_buffer_max_rows = DEFAULT_TOTAL_BUFFER_MAX_ROWS
    /\ scope = "constructed"
    /\ sendCalls = <<>>
    /\ addCalls = <<>>
    /\ flushCalls = 0
    /\ epochStart = 0
    /\ lastCall = NoCall
    /\ sendFailures = 0

\* The send calls made so far.
SendsMade == Cardinality({i \in 1..Len(fanoutSends) : fanoutSends[i].op = "send"})

\* ---- SerialOutput ----

InitSerial ==
    /\ FunctionsUnused
    /\ CsvUnused
    /\ HandlerUnused
    /\ fanout = "none"
    /\ output_writers \in WriterLists
    /\ writerCalls = <<>>
    /\ output_queue = <<>>
    /\ consumer = "notStarted"
    /\ fanoutSends = <<>>
    /\ dequeued = <<>>
    /\ writerFailures = 0
    /\ nextRow = 1
    /\ BufferedUnused
    /\ RunLossesUnused
    /\ LoggingUnused
    /\ DriverUnused
    /\ BigqueryUnused

\* SerialOutput.__init__, lines 141-145.
SerialOutputInit ==
    /\ fanout = "none"
    /\ fanout' = "serial"
    /\ writerCalls' = writerCalls \o InitializeWriters(output_writers, "caller")
    /\ UNCHANGED <<output_writers, output_queue, consumer, fanoutSends, dequeued,
                   writerFailures, nextRow>>
    /\ UNCHANGED notFan

\* SerialOutput.send, lines 147-150.
SerialSend(output_name, rows) ==
    /\ fanout = "serial"
    /\ SendsMade < MaxSends
    /\ \E failAt \in WriteOutcomes(output_writers, MaxWriterFailures - writerFailures) :
          /\ writerCalls' = writerCalls
                \o WriteToWriters(output_writers, output_name, rows, failAt, "caller")
          /\ writerFailures' = writerFailures + (IF failAt = 0 THEN 0 ELSE 1)
          /\ fanoutSends' = Append(fanoutSends,
                [op |-> "send", name |-> output_name, rows |-> rows, by |-> "caller",
                 raised |-> (failAt # 0), callsBefore |-> Len(writerCalls)])
    /\ nextRow' = nextRow + Len(rows.items)
    /\ UNCHANGED <<fanout, output_writers, output_queue, consumer, dequeued>>
    /\ UNCHANGED notFan

SerialSendCall ==
    \E arguments \in SendArguments(nextRow) :
        SerialSend(arguments[1], arguments[2])

NextSerial ==
    \/ SerialOutputInit
    \/ SerialSendCall

SpecSerial == InitSerial /\ [][NextSerial]_vars

\* ---- MultiprocessingOutput ----

\* The processes that call send: two trial processes.
Producers == {"trial1", "trial2"}

InitMultiprocessing ==
    /\ FunctionsUnused
    /\ CsvUnused
    /\ HandlerUnused
    /\ fanout = "multi"
    /\ output_writers \in WriterLists
    /\ writerCalls = <<>>
    /\ output_queue = <<>>
    /\ consumer = "notStarted"
    /\ fanoutSends = <<>>
    /\ dequeued = <<>>
    /\ writerFailures = 0
    /\ nextRow = 1
    /\ BufferedUnused
    /\ RunLossesUnused
    /\ LoggingUnused
    /\ DriverUnused
    /\ BigqueryUnused

SendWritesDirectly(by, output_name, rows) ==
    /\ fanout = "multi"
    /\ SendsMade < MaxSends
    /\ writerCalls' = writerCalls
          \o WriteToWriters(output_writers, output_name, rows, 0, by)
    /\ fanoutSends' = Append(fanoutSends,
          [op |-> "send", name |-> output_name, rows |-> rows, by |-> by,
           raised |-> FALSE, callsBefore |-> Len(writerCalls)])
    /\ nextRow' = nextRow + Len(rows.items)
    /\ UNCHANGED <<fanout, output_writers, output_queue, consumer, dequeued,
                   writerFailures>>
    /\ UNCHANGED notFan

\* MultiprocessingOutput.send, lines 165-167, called in process by.
MultiprocessingSend(by, output_name, rows) ==
    /\ fanout = "multi"
    /\ SendsMade < MaxSends
    /\ output_queue' = Append(output_queue, TupleMessage(output_name, rows))
    /\ fanoutSends' = Append(fanoutSends,
          [op |-> "send", name |-> output_name, rows |-> rows, by |-> by,
           raised |-> FALSE, callsBefore |-> Len(writerCalls)])
    /\ nextRow' = nextRow + Len(rows.items)
    /\ UNCHANGED <<fanout, output_writers, writerCalls, consumer, dequeued,
                   writerFailures>>
    /\ UNCHANGED notFan

MultiprocessingSendCall ==
    \E by \in Producers, arguments \in SendArguments(nextRow) :
        MultiprocessingSend(by, arguments[1], arguments[2])

\* MultiprocessingOutput.stop, lines 169-171, as far as the fanout variables go.
PutStopSignal ==
    /\ fanout = "multi"
    /\ ~\E i \in 1..Len(fanoutSends) : fanoutSends[i].op = "stop"
    /\ output_queue' = Append(output_queue, StrMessage(STOP_SIGNAL))
    /\ fanoutSends' = Append(fanoutSends,
          [op |-> "stop", name |-> "", rows |-> ListOf(<<>>), by |-> "main",
           raised |-> FALSE, callsBefore |-> Len(writerCalls)])
    /\ UNCHANGED <<fanout, output_writers, writerCalls, consumer, dequeued,
                   writerFailures, nextRow>>

\* MultiprocessingOutput.stop, lines 169-171.
MultiprocessingStop ==
    /\ PutStopSignal
    /\ UNCHANGED notFan

\* process_queue, lines 184-190: the output process starts and initializes the
\* writers.
ProcessQueueStart ==
    /\ fanout = "multi"
    /\ consumer = "notStarted"
    /\ consumer' = "running"
    /\ writerCalls' = writerCalls \o InitializeWriters(output_writers, "consumer")
    /\ UNCHANGED <<fanout, output_writers, output_queue, fanoutSends, dequeued,
                   writerFailures, nextRow>>
    /\ UNCHANGED notFan

ProcessQueueIgnoresStop ==
    /\ consumer = "running"
    /\ output_queue # <<>>
    /\ LET message == Head(output_queue)
       IN /\ output_queue' = Tail(output_queue)
          /\ dequeued' = Append(dequeued, message)
          /\ IF message.isStr
             THEN UNCHANGED <<consumer, writerCalls, writerFailures>>
             ELSE /\ writerCalls' = writerCalls
                        \o WriteToWriters(output_writers, message.name, message.rows, 0,
                                          "consumer")
                  /\ UNCHANGED <<consumer, writerFailures>>
    /\ UNCHANGED <<fanout, output_writers, fanoutSends, nextRow>>
    /\ UNCHANGED notFan

\* process_queue, lines 191-198: one turn of the loop.  get blocks while the queue
\* is empty; the stop string ends the loop; an exception of write_rows ends the
\* process.
ProcessQueueStep ==
    /\ consumer = "running"
    /\ output_queue # <<>>
    /\ LET message == Head(output_queue)
       IN /\ output_queue' = Tail(output_queue)
          /\ dequeued' = Append(dequeued, message)
          /\ IF message.isStr /\ message.str = STOP_SIGNAL
             THEN /\ consumer' = "done"
                  /\ UNCHANGED <<writerCalls, writerFailures>>
             ELSE \E failAt \in WriteOutcomes(output_writers,
                                             MaxWriterFailures - writerFailures) :
                     /\ writerCalls' = writerCalls
                           \o WriteToWriters(output_writers, message.name, message.rows,
                                             failAt, "consumer")
                     /\ writerFailures' = writerFailures + (IF failAt = 0 THEN 0 ELSE 1)
                     /\ consumer' = IF failAt = 0 THEN "running" ELSE "crashed"
    /\ UNCHANGED <<fanout, output_writers, fanoutSends, nextRow>>
    /\ UNCHANGED notFan

NextMultiprocessing ==
    \/ MultiprocessingSendCall
    \/ MultiprocessingStop
    \/ ProcessQueueStart
    \/ ProcessQueueStep

SpecMultiprocessing == InitMultiprocessing /\ [][NextMultiprocessing]_vars

\* Two trial processes sending to an output process with both writers.
InitConcurrentSends ==
    /\ InitMultiprocessing
    /\ output_writers = <<"csv", "bigquery">>

SpecConcurrentSends == InitConcurrentSends /\ [][NextMultiprocessing]_vars

-----------------------------------------------------------------------------
(* run_losses: the sampling of properties *)

\* The documents of the collections "<state> houses random" the model draws
\* from: one geography per state, with every limit of `limits`.
HouseGeographies ==
    {[state |-> "AR", county |-> "Stone", zip_code |-> "72560"],
     [state |-> "GA", county |-> "Walker", zip_code |-> "30741"],
     [state |-> "IA", county |-> "Black Hawk", zip_code |-> "50613"]}

Houses(loss_state, lims) ==
    {[state |-> g.state, county |-> g.county, zip_code |-> g.zip_code, limit |-> l] :
        g \in {h \in HouseGeographies : h.state = loss_state}, l \in lims}

\* Limits with which a few properties reach the ceilings.
SamplingLimits == {40015000, 50000000, 79985000}

\* lib/premium/zip_to_prem.json, for the zip codes of the model.
zip_to_prem ==
    [z \in Range(ZIP_KEYS) |-> CASE z = "72560" -> 60 [] z = "50613" -> 100 [] OTHER -> 250]

Max(a, b) == IF a >= b THEN a ELSE b

AddToDictionaryBelowTotal(dictionary, curr_prop, amount) ==
    [dictionary EXCEPT !.state[curr_prop.state] = @ + amount,
                       !.county[curr_prop.county] = @ + amount,
                       !.zip[curr_prop.zip_code] = @ + amount]

AddToDictionaryWithoutZip(dictionary, curr_prop, amount) ==
    [dictionary EXCEPT !.total = @ + amount,
                       !.state[curr_prop.state] = @ + amount,
                       !.county[curr_prop.county] = @ + amount]

\* Lines 343-350: one amount added to the total and to the three geographies.
AddToDictionary(dictionary, curr_prop, amount) ==
    [dictionary EXCEPT !.total = @ + amount,
                       !.state[curr_prop.state] = @ + amount,
                       !.county[curr_prop.county] = @ + amount,
                       !.zip[curr_prop.zip_code] = @ + amount]

ReachedExposureCeilingOfStateOnly(dictionary, curr_prop) ==
    dictionary.state[curr_prop.state] > (state_agg_limit - CEILING_MARGIN)

\* Lines 329-332.
ReachedExposureCeiling(dictionary, curr_prop) ==
    \/ dictionary.total > (total_agg_limit - CEILING_MARGIN)
    \/ dictionary.state[curr_prop.state] > (state_agg_limit - CEILING_MARGIN)

\* Line 362.
ReachedTotalCeiling(dictionary) == dictionary.total > (total_agg_limit - CEILING_MARGIN)

\* The start of one attempt, lines 160-310: fresh dictionaries, the states shuffled,
\* the loop over the states entered.
BeginAttempt ==
    /\ attempt' = attempt + 1
    /\ states' \in Shuffles(states)
    /\ loss_dictionary' = EmptyDictionary
    /\ exposure_dictionary' = EmptyDictionary
    /\ premium_dictionary' = EmptyDictionary
    /\ exposures' = <<>>
    /\ storms' = <<>>
    /\ limit' = 0
    /\ curr_limit' = 0
    /\ stateIdx' = 1
    /\ sampled' = 0
    /\ pc' = "Sampling"
    /\ phases' = <<"Sampling">>
    /\ provided' = <<>>
    /\ UNCHANGED <<output_schema_version, attempts, providerFailures, limits, maxProps>>
    /\ UNCHANGED notRun

\* The call of run_losses.
RunLosses ==
    /\ pc = "notCalled"
    /\ BeginAttempt

AfterStateWithoutBreak(dictionary) ==
    /\ sampled' = 0
    /\ IF stateIdx = Len(states)
       THEN /\ pc' = "WritingExposures"
            /\ phases' = Append(phases, "WritingExposures")
            /\ UNCHANGED stateIdx
       ELSE /\ stateIdx' = stateIdx + 1
            /\ UNCHANGED <<pc, phases>>

\* The end of `for curr_prop in curr_props`, lines 362-364, and the next turn of
\* `for loss_state in states`.
AfterState(dictionary) ==
    /\ sampled' = 0
    /\ IF ReachedTotalCeiling(dictionary) \/ stateIdx = Len(states)
       THEN /\ pc' = "WritingExposures"
            /\ phases' = Append(phases, "WritingExposures")
            /\ UNCHANGED stateIdx
       ELSE /\ stateIdx' = stateIdx + 1
            /\ UNCHANGED <<pc, phases>>

\* Lines 327-360: the cursor yields one more property of loss_state.
SampleProperty ==
    /\ pc = "Sampling"
    /\ sampled < maxProps
    /\ \E curr_prop \in Houses(states[stateIdx], limits) :
          IF ReachedExposureCeiling(exposure_dictionary, curr_prop)
          THEN /\ AfterState(exposure_dictionary)
               /\ provided' = Append(provided, [prop |-> curr_prop, added |-> FALSE])
               /\ UNCHANGED <<curr_limit, exposure_dictionary, premium_dictionary, exposures>>
          ELSE /\ curr_limit' = curr_prop.limit
               /\ provided' = Append(provided, [prop |-> curr_prop, added |-> TRUE])
               /\ exposure_dictionary' =
                     AddToDictionary(exposure_dictionary, curr_prop, curr_prop.limit)
               /\ premium_dictionary' =
                     AddToDictionary(premium_dictionary, curr_prop,
                                     Max(100, zip_to_prem[curr_prop.zip_code]))
               /\ exposures' = Append(exposures,
                     [state |-> curr_prop.state, county |-> curr_prop.county,
                      zip_code |-> curr_prop.zip_code])
               /\ sampled' = sampled + 1
               /\ UNCHANGED <<pc, phases, stateIdx>>
    /\ UNCHANGED <<attempt, output_schema_version, states, loss_dictionary, storms, limit,
                   attempts, providerFailures, limits, maxProps>>
    /\ UNCHANGED notRun

\* The cursor is exhausted: the sample of loss_state had `sampled` properties.
EndOfSample ==
    /\ pc = "Sampling"
    /\ AfterState(exposure_dictionary)
    /\ UNCHANGED <<attempt, output_schema_version, states, curr_limit, exposure_dictionary,
                   premium_dictionary, loss_dictionary, exposures, storms, limit, attempts,
                   providerFailures, limits, maxProps, provided>>
    /\ UNCHANGED notRun

\* An attempt ends with an exception: tenacity sees it.
AttemptRaises(error, byProvider) ==
    /\ pc' = "raised"
    /\ attempts' = Append(attempts,
          [attempt |-> attempt, phases |-> phases, outcome |-> "raised", error |-> error,
           providerFailed |-> byProvider])

\* db[...].aggregate or the cursor raises.
SampleProviderFails ==
    /\ pc = "Sampling"
    /\ providerFailures < MaxProviderFailures
    /\ providerFailures' = providerFailures + 1
    /\ AttemptRaises("PyMongoError", TRUE)
    /\ UNCHANGED <<attempt, output_schema_version, states, stateIdx, sampled, curr_limit,
                   exposure_dictionary, premium_dictionary, loss_dictionary, exposures,
                   storms, limit, phases, limits, maxProps, provided>>
    /\ UNCHANGED notRun

\* tenacity.retry, lines 124-127: the function is called again while fewer than
\* SIMULATION_MAX_RETRIES attempts were made.
Retry ==
    /\ pc = "raised"
    /\ attempt < SIMULATION_MAX_RETRIES
    /\ BeginAttempt

\* The state in which run_losses is called with the given arguments and data.
InitRunLosses(statesArgument, schema, lims, props) ==
    /\ pc = "notCalled"
    /\ attempt = 0
    /\ output_schema_version = schema
    /\ states = statesArgument
    /\ stateIdx = 0
    /\ sampled = 0
    /\ curr_limit = 0
    /\ exposure_dictionary = EmptyDictionary
    /\ premium_dictionary = EmptyDictionary
    /\ loss_dictionary = EmptyDictionary
    /\ exposures = <<>>
    /\ storms = <<>>
    /\ limit = 0
    /\ phases = <<>>
    /\ attempts = <<>>
    /\ providerFailures = 0
    /\ limits = lims
    /\ maxProps = props
    /\ provided = <<>>

InitSampling ==
    /\ FunctionsUnused
    /\ CsvUnused
    /\ HandlerUnused
    /\ InitRunLosses(STATE_KEYS, DEFAULT_OUTPUT_SCHEMA_VERSION, SamplingLimits, MaxProps)
    /\ nextRow = 1
    /\ BufferedUnused
    /\ FanoutUnused
    /\ LoggingUnused
    /\ DriverUnused
    /\ BigqueryUnused

NextSampling ==
    \/ RunLosses
    \/ SampleProperty
    \/ EndOfSample
    \/ SampleProviderFails
    \/ Retry

SpecSampling == InitSampling /\ [][NextSampling]_vars

-----------------------------------------------------------------------------
(* run_losses: the rows and what is written *)

\* The arguments sim_id and runtime_timestamp of the simulation of the model.
sim_id == 1
runtime_timestamp == 1

\* db/v2/geo_types.py, str_to_int: GEO_TYPE_MAPPINGS.get(..., GEO_TYPE_UNKNOWN).
str_to_int(geo_type) ==
    CASE geo_type = "total" -> 4
      [] geo_type = "state" -> 1
      [] geo_type = "county" -> 2
      [] geo_type = "zip" -> 3
      [] OTHER -> -1

\* format_column_name_for_output: ' ', '.' and '-' become '_'.  Of the keys of
\* the model only "Black Hawk" holds such a character.  (FormatColumnName
\* below is the function on sequences of characters.)
format_column_name_for_output(column_name) ==
    IF column_name = "Black Hawk" THEN "Black_Hawk" ELSE column_name

\* build_geo_type_row, lines 154-162.
build_geo_type_row(geo_type_str, geography, total) ==
    [run_timestamp |-> runtime_timestamp, sim_id |-> sim_id,
     geo_type |-> str_to_int(geo_type_str), geography |-> geography, total |-> total]

\* The (geo_type, geography) pairs below 'total', in the order in which
\* dictionary.items() and value.items() give them.
Geographies ==
    [i \in 1..Len(STATE_KEYS) |-> <<"state", STATE_KEYS[i]>>]
    \o [i \in 1..Len(COUNTY_KEYS) |-> <<"county", COUNTY_KEYS[i]>>]
    \o [i \in 1..Len(ZIP_KEYS) |-> <<"zip", ZIP_KEYS[i]>>]

ValueAt(dictionary, g) ==
    CASE g[1] = "state" -> dictionary.state[g[2]]
      [] g[1] = "county" -> dictionary.county[g[2]]
      [] g[1] = "zip" -> dictionary.zip[g[2]]

\* The values of a dictionary below 'total', in the order of Geographies.
ValuesOf(dictionary) == [i \in 1..Len(Geographies) |-> ValueAt(dictionary, Geographies[i])]

\* A flat row: dict(<id_key>=sim_id), the key 'total', and one column per
\* geography, values[i] for Geographies[i]; a column name assigned twice keeps
\* the last value.
FlatRow(id_key, total, values) ==
    [id_key |-> id_key, sim_id |-> sim_id, total |-> total,
     columns |->
        [c \in {format_column_name_for_output(Geographies[i][2]) : i \in 1..Len(Geographies)} |->
            LET last == CHOOSE i \in 1..Len(Geographies) :
                            /\ format_column_name_for_output(Geographies[i][2]) = c
                            /\ \A j \in i + 1..Len(Geographies) :
                                  format_column_name_for_output(Geographies[j][2]) # c
            IN values[last]]]

generate_loss_ratio_truncating(premium, loss) ==
    IF premium # 0 THEN (loss * 10000) \div premium ELSE 0

\* generate_loss_ratio, lines 118-121: round(loss / premium, 4), kept as the
\* number of ten-thousandths; round halves to even.
generate_loss_ratio(premium, loss) ==
    IF premium # 0
    THEN LET q == (loss * 10000) \div premium
             r == (loss * 10000) % premium
         IN IF 2 * r > premium \/ (2 * r = premium /\ q % 2 = 1) THEN q + 1 ELSE q
    ELSE 0

AddOf(output_name, row) == [name |-> output_name, rows |-> DictOf(row)]

\* Lines 381-411: the add calls of the first `with` block.  For 'total' both rows
\* carry the exposure total and both go to OUTPUT_EXPOSURES.
ExposureAdds(schema, exposure, premium) ==
    IF schema # GEO_TYPE_ROW_OUTPUT_SCHEMA_VERSION THEN <<>>
    ELSE LET total == exposure.total
             premium_total == exposure.total
         IN (IF total # 0
             THEN <<AddOf(OUTPUT_EXPOSURES, build_geo_type_row("total", "total", total))>>
             ELSE <<>>)
            \o (IF premium_total # 0
                THEN <<AddOf(OUTPUT_EXPOSURES,
                             build_geo_type_row("total", "total", premium_total))>>
                ELSE <<>>)
            \o Flatten([i \in 1..Len(Geographies) |->
                  LET g == Geographies[i]
                  IN (IF ValueAt(exposure, g) # 0
                      THEN <<AddOf(OUTPUT_EXPOSURES,
                                   build_geo_type_row(g[1], g[2], ValueAt(exposure, g)))>>
                      ELSE <<>>)
                     \o (IF ValueAt(premium, g) # 0
                         THEN <<AddOf(OUTPUT_PREMIUMS,
                                      build_geo_type_row(g[1], g[2], ValueAt(premium, g)))>>
                         ELSE <<>>)])

\* Lines 378-379, 383-384, 400-403: exposure_row and premium_row.
exposure_row(exposure) ==
    FlatRow("sim_id", exposure.total, ValuesOf(exposure))
premium_row(exposure, premium) ==
    FlatRow("sim_id", exposure.total, ValuesOf(premium))

\* What a `with BufferedOutputStream(outputs)` block sends to outputs, none of the
\* sends raising, when its body makes the add calls `adds` and then ends,
\* normally or with an exception: the flushes of add, then that of __exit__.
RECURSIVE StreamSends(_, _, _)
StreamSends(adds, buf, total) ==
    LET SendsOf(b) == [i \in 1..Len(FlushEntries(b)) |->
                          [name |-> FlushEntries(b)[i].name,
                           rows |-> ListOf(FlushEntries(b)[i].rows)]]
    IN IF adds = <<>> THEN SendsOf(buf)
       ELSE LET rowList == AsRowList(Head(adds).rows)
                buf2 == BufferExtend(buf, Head(adds).name, rowList)
                total2 == total + Len(rowList)
            IN IF ReachedMax(buf2, total2, Head(adds).name,
                             DEFAULT_PER_OUTPUT_MAX_ROWS, DEFAULT_TOTAL_BUFFER_MAX_ROWS)
               THEN SendsOf(buf2) \o StreamSends(Tail(adds), <<>>, 0)
               ELSE StreamSends(Tail(adds), buf2, total2)

\* Lines 447-461: the add calls the body of the second `with` block makes, and
\* whether it raises.  nlr_value is a local of run_losses first assigned at line
\* 465, in the branch of the keys below 'total'; 'total' is the first key of
\* loss_dictionary, so with the geo-type schema line 459 reads it unassigned:
\* UnboundLocalError, after the add of the total loss.
LossesBodyUnguarded(schema, loss) ==
    IF schema # GEO_TYPE_ROW_OUTPUT_SCHEMA_VERSION
    THEN [adds |-> <<>>, raised |-> FALSE]
    ELSE [adds |-> <<AddOf(OUTPUT_LOSSES,
                           build_geo_type_row("total", "total", loss.total))>>,
          raised |-> TRUE]

LossesBody(schema, loss) ==
    IF schema # GEO_TYPE_ROW_OUTPUT_SCHEMA_VERSION
    THEN [adds |-> <<>>, raised |-> FALSE]
    ELSE [adds |-> IF loss.total # 0
                   THEN <<AddOf(OUTPUT_LOSSES,
                                build_geo_type_row("total", "total", loss.total))>>
                   ELSE <<>>,
          raised |-> TRUE]

\* Lines 445-446, 450-451, 464-467: loss_row and nlr_row.
loss_row(loss) == FlatRow("SimId", loss.total, ValuesOf(loss))
nlr_row(loss, premium) ==
    FlatRow("SimId", generate_loss_ratio(premium.total, loss.total),
            [i \in 1..Len(Geographies) |->
                generate_loss_ratio(ValuesOf(premium)[i], ValuesOf(loss)[i])])

\* Lines 432-442: payout added for each damaged home of each storm that has
\* coordinates.
RECURSIVE TallyHomes(_, _, _)
TallyHomes(dictionary, exps, homes) ==
    IF homes = {} THEN dictionary
    ELSE LET i == CHOOSE i \in homes : TRUE
         IN TallyHomes(AddToDictionary(dictionary, exps[i], payout), exps, homes \ {i})

RECURSIVE TallyStorms(_, _, _)
TallyStorms(dictionary, exps, polys) ==
    IF polys = <<>> THEN dictionary
    ELSE TallyStorms(IF Head(polys).coordinates
                     THEN TallyHomes(dictionary, exps, Head(polys).within)
                     ELSE dictionary,
                     exps, Tail(polys))

\* What storm.generate_polygon can return, as seen by the tally: whether the
\* polygon has coordinates, and which exposures lie within it.
Polygons(exps) ==
    {[coordinates |-> TRUE, within |-> w] : w \in SUBSET (1..Len(exps))}
    \cup {[coordinates |-> FALSE, within |-> {}]}

\* outputs.send for each of `sends` in turn, none raising: write_rows on every
\* writer (SerialOutput), or one message put on the queue (MultiprocessingOutput).
OutputsSend(sends) ==
    LET by == IF fanout = "serial" THEN "caller" ELSE "trial1"
    IN /\ IF fanout = "serial"
          THEN /\ writerCalls' = writerCalls
                     \o Flatten([i \in 1..Len(sends) |->
                           WriteToWriters(output_writers, sends[i].name, sends[i].rows, 0, by)])
               /\ UNCHANGED output_queue
          ELSE /\ output_queue' = output_queue
                     \o [i \in 1..Len(sends) |-> TupleMessage(sends[i].name, sends[i].rows)]
               /\ UNCHANGED writerCalls
       /\ fanoutSends' = fanoutSends
             \o [i \in 1..Len(sends) |->
                   [op |-> "send", name |-> sends[i].name, rows |-> sends[i].rows, by |-> by,
                    raised |-> FALSE,
                    callsBefore |-> IF fanout = "serial"
                                    THEN Len(writerCalls) + (i - 1) * Len(output_writers)
                                    ELSE Len(writerCalls)]]
       /\ UNCHANGED <<fanout, output_writers, consumer, dequeued, writerFailures>>

-----------------------------------------------------------------------------
(* run_losses after the sampling, and its callers *)

\* Lines 377-419: exposures and premiums written, the number of storms drawn.
WriteExposures ==
    /\ pc = "WritingExposures"
    /\ OutputsSend(
          StreamSends(ExposureAdds(output_schema_version, exposure_dictionary,
                                   premium_dictionary), <<>>, 0)
          \o (IF output_schema_version = FLAT_ROW_OUTPUT_SCHEMA_VERSION
              THEN <<[name |-> OUTPUT_EXPOSURES,
                      rows |-> DictOf(exposure_row(exposure_dictionary))],
                     [name |-> OUTPUT_PREMIUMS,
                      rows |-> DictOf(premium_row(exposure_dictionary, premium_dictionary))]>>
              ELSE <<>>))
    /\ limit' \in 0..MaxStormLimit
    /\ pc' = "GeneratingStorms"
    /\ phases' = Append(phases, "GeneratingStorms")
    /\ UNCHANGED <<attempt, output_schema_version, states, stateIdx, sampled, curr_limit,
                   exposure_dictionary, premium_dictionary, loss_dictionary, exposures,
                   storms, attempts, providerFailures, limits, maxProps, provided>>
    /\ UNCHANGED notRunNorFan

\* Lines 420-426: one turn of `while num_storms <= limit` in which
\* generate_polygon returns a polygon.
GenerateStorm ==
    /\ pc = "GeneratingStorms"
    /\ \E sample_storm \in Polygons(exposures) : storms' = Append(storms, sample_storm)
    /\ IF Len(storms) + 1 <= limit
       THEN UNCHANGED <<pc, phases>>
       ELSE /\ pc' = "CalculatingImpact"
            /\ phases' = Append(phases, "CalculatingImpact")
    /\ UNCHANGED <<attempt, output_schema_version, states, stateIdx, sampled, curr_limit,
                   exposure_dictionary, premium_dictionary, loss_dictionary, exposures,
                   limit, attempts, providerFailures, limits, maxProps, provided>>
    /\ UNCHANGED notRun

\* storm.generate_polygon raises.
StormProviderFails ==
    /\ pc = "GeneratingStorms"
    /\ providerFailures < MaxProviderFailures
    /\ providerFailures' = providerFailures + 1
    /\ AttemptRaises("generate_polygon", TRUE)
    /\ UNCHANGED <<attempt, output_schema_version, states, stateIdx, sampled, curr_limit,
                   exposure_dictionary, premium_dictionary, loss_dictionary, exposures,
                   storms, limit, phases, limits, maxProps, provided>>
    /\ UNCHANGED notRun

\* Lines 429-442.
CalculateImpact ==
    /\ pc = "CalculatingImpact"
    /\ loss_dictionary' = TallyStorms(loss_dictionary, exposures, storms)
    /\ pc' = "WritingLosses"
    /\ phases' = Append(phases, "WritingLosses")
    /\ UNCHANGED <<attempt, output_schema_version, states, stateIdx, sampled, curr_limit,
                   exposure_dictionary, premium_dictionary, exposures, storms, limit,
                   attempts, providerFailures, limits, maxProps, provided>>
    /\ UNCHANGED notRun

\* Lines 444-484: losses and NLR written; the attempt returns sim_id, or ends with
\* the exception of the body, raised again once __exit__ has flushed.
WriteLosses ==
    /\ pc = "WritingLosses"
    /\ LET body == LossesBody(output_schema_version, loss_dictionary)
       IN /\ OutputsSend(
                StreamSends(body.adds, <<>>, 0)
                \o (IF ~body.raised /\ output_schema_version = FLAT_ROW_OUTPUT_SCHEMA_VERSION
                    THEN <<[name |-> OUTPUT_LOSSES,
                            rows |-> DictOf(loss_row(loss_dictionary))],
                           [name |-> OUTPUT_NLR,
                            rows |-> DictOf(nlr_row(loss_dictionary, premium_dictionary))]>>
                    ELSE <<>>))
          /\ IF body.raised
             THEN AttemptRaises("UnboundLocalError", FALSE)
             ELSE /\ pc' = "returned"
                  /\ attempts' = Append(attempts,
                        [attempt |-> attempt, phases |-> phases, outcome |-> "returned",
                         error |-> "", providerFailed |-> FALSE])
    /\ UNCHANGED <<attempt, output_schema_version, states, stateIdx, sampled, curr_limit,
                   exposure_dictionary, premium_dictionary, loss_dictionary, exposures,
                   storms, limit, phases, providerFailures, limits, maxProps, provided>>
    /\ UNCHANGED notRunNorFan

GiveUpAfterTwo ==
    /\ pc = "raised"
    /\ attempt >= 2
    /\ pc' = "failed"
    /\ UNCHANGED <<attempt, output_schema_version, states, stateIdx, sampled, curr_limit,
                   exposure_dictionary, premium_dictionary, loss_dictionary, exposures,
                   storms, limit, phases, attempts, providerFailures, limits, maxProps, provided>>
    /\ UNCHANGED notRun

\* tenacity.retry, stop_after_attempt: after the last attempt RetryError goes to
\* the caller.
GiveUp ==
    /\ pc = "raised"
    /\ attempt = SIMULATION_MAX_RETRIES
    /\ pc' = "failed"
    /\ UNCHANGED <<attempt, output_schema_version, states, stateIdx, sampled, curr_limit,
                   exposure_dictionary, premium_dictionary, loss_dictionary, exposures,
                   storms, limit, phases, attempts, providerFailures, limits, maxProps, provided>>
    /\ UNCHANGED notRun

\* main, lines 761-763: every simulation has returned, outputs.stop() is called.
MainStops ==
    /\ pc = "returned"
    /\ MultiprocessingStop

\* main with one simulation, in single-process or in multi-process mode, with the
\* flat or the geo-type schema; the writers do not fail here.
InitSimulation ==
    /\ FunctionsUnused
    /\ CsvUnused
    /\ HandlerUnused
    /\ \E schema \in {FLAT_ROW_OUTPUT_SCHEMA_VERSION, GEO_TYPE_ROW_OUTPUT_SCHEMA_VERSION} :
          InitRunLosses(<<"IA">>, schema, {15000}, 1)
    /\ fanout \in {"serial", "multi"}
    /\ output_writers = <<"csv", "bigquery">>
    /\ writerCalls = IF fanout = "serial" THEN InitializeWriters(output_writers, "caller")
                     ELSE <<>>
    /\ output_queue = <<>>
    /\ consumer = "notStarted"
    /\ fanoutSends = <<>>
    /\ dequeued = <<>>
    /\ writerFailures = MaxWriterFailures
    /\ nextRow = 1
    /\ BufferedUnused
    /\ LoggingUnused
    /\ DriverUnused
    /\ BigqueryUnused

NextSimulation ==
    \/ RunLosses
    \/ SampleProperty
    \/ EndOfSample
    \/ SampleProviderFails
    \/ WriteExposures
    \/ GenerateStorm
    \/ StormProviderFails
    \/ CalculateImpact
    \/ WriteLosses
    \/ Retry
    \/ GiveUp
    \/ ProcessQueueStart
    \/ ProcessQueueStep
    \/ MainStops

SpecSimulation == InitSimulation /\ [][NextSimulation]_vars

\* The limits of two of the sampled properties of the documented example.
EmissionLimits == {100000, 200000}

\* run_losses in single-process mode with one writer that does not fail and
\* providers that do not fail, with the flat or the geo-type schema, $sample
\* yielding up to two properties.
InitEmission ==
    /\ FunctionsUnused
    /\ CsvUnused
    /\ HandlerUnused
    /\ \E schema \in {FLAT_ROW_OUTPUT_SCHEMA_VERSION, GEO_TYPE_ROW_OUTPUT_SCHEMA_VERSION} :
          InitRunLosses(<<"IA">>, schema, EmissionLimits, 2)
    /\ fanout = "serial"
    /\ output_writers = <<"csv">>
    /\ writerCalls = InitializeWriters(output_writers, "caller")
    /\ output_queue = <<>>
    /\ consumer = "notStarted"
    /\ fanoutSends = <<>>
    /\ dequeued = <<>>
    /\ writerFailures = MaxWriterFailures
    /\ nextRow = 1
    /\ BufferedUnused
    /\ LoggingUnused
    /\ DriverUnused
    /\ BigqueryUnused

NextEmission ==
    \/ RunLosses
    \/ SampleProperty
    \/ EndOfSample
    \/ WriteExposures
    \/ GenerateStorm
    \/ CalculateImpact
    \/ WriteLosses
    \/ Retry
    \/ GiveUp

SpecEmission == InitEmission /\ [][NextEmission]_vars

\* run_losses as in SpecEmission, over two states of which $sample yields up to
\* one property each.
InitAggregates ==
    /\ FunctionsUnused
    /\ CsvUnused
    /\ HandlerUnused
    /\ \E schema \in {FLAT_ROW_OUTPUT_SCHEMA_VERSION, GEO_TYPE_ROW_OUTPUT_SCHEMA_VERSION} :
          InitRunLosses(<<"GA", "IA">>, schema, {100000}, 1)
    /\ fanout = "serial"
    /\ output_writers = <<"csv">>
    /\ writerCalls = InitializeWriters(output_writers, "caller")
    /\ output_queue = <<>>
    /\ consumer = "notStarted"
    /\ fanoutSends = <<>>
    /\ dequeued = <<>>
    /\ writerFailures = MaxWriterFailures
    /\ nextRow = 1
    /\ BufferedUnused
    /\ LoggingUnused
    /\ DriverUnused
    /\ BigqueryUnused

SpecAggregates == InitAggregates /\ [][NextEmission]_vars


\* run_losses in single-process mode with one writer that does not fail, the
\* sample provider and the storm generator raising up to MaxProviderFailures
\* times.
InitRetry ==
    /\ FunctionsUnused
    /\ CsvUnused
    /\ HandlerUnused
    /\ \E schema \in {FLAT_ROW_OUTPUT_SCHEMA_VERSION, GEO_TYPE_ROW_OUTPUT_SCHEMA_VERSION} :
          InitRunLosses(<<"IA">>, schema, {15000}, 1)
    /\ fanout = "serial"
    /\ output_writers = <<"csv">>
    /\ writerCalls = InitializeWriters(output_writers, "caller")
    /\ output_queue = <<>>
    /\ consumer = "notStarted"
    /\ fanoutSends = <<>>
    /\ dequeued = <<>>
    /\ writerFailures = MaxWriterFailures
    /\ nextRow = 1
    /\ BufferedUnused
    /\ LoggingUnused
    /\ DriverUnused
    /\ BigqueryUnused

NextRetry ==
    \/ RunLosses
    \/ SampleProperty
    \/ EndOfSample
    \/ SampleProviderFails
    \/ WriteExposures
    \/ GenerateStorm
    \/ StormProviderFails
    \/ CalculateImpact
    \/ WriteLosses
    \/ Retry
    \/ GiveUp

SpecRetry == InitRetry /\ [][NextRetry]_vars

-----------------------------------------------------------------------------
(* simulation_logging.py: LoggerThread and get_logger *)

\* What is put on logging_queue: a LogRecord, or LoggerThread.STOP_SIGNAL (None).
LogRecordOf(id, by) == [isNone |-> FALSE, id |-> id, name |-> "root", by |-> by]
LOGGER_STOP_SIGNAL == [isNone |-> TRUE, id |-> 0, name |-> "", by |-> "main"]

\* The threads of one process that call get_logger.
Threads == {"thread1", "thread2"}

\* The handlers the root logger of a process has before get_logger is called:
\* none, or one that is not a QueueHandler.
RootHandlerChoices == {<<>>, <<"StreamHandler">>}

QueueHandlers(handlers) == {i \in 1..Len(handlers) : handlers[i] = "QueueHandler"}

\* LoggerThread.start.
LoggerThreadStart ==
    /\ loggerThread = "notStarted"
    /\ loggerThread' = "running"
    /\ UNCHANGED <<logging_queue, handled, logPuts, rootHandlers, lockOwner, getLoggerPc,
                   getLoggerCalls, nextRecord>>
    /\ UNCHANGED notLog

LoggerThreadRunIgnoresStop ==
    /\ loggerThread = "running"
    /\ logging_queue # <<>>
    /\ logging_queue' = Tail(logging_queue)
    /\ handled' = Append(handled, Head(logging_queue))
    /\ UNCHANGED <<loggerThread, logPuts, rootHandlers, lockOwner, getLoggerPc,
                   getLoggerCalls, nextRecord>>
    /\ UNCHANGED notLog

\* LoggerThread.run, lines 101-107: one turn of the loop.  get blocks while the
\* queue is empty.
LoggerThreadRun ==
    /\ loggerThread = "running"
    /\ logging_queue # <<>>
    /\ logging_queue' = Tail(logging_queue)
    /\ IF Head(logging_queue) = LOGGER_STOP_SIGNAL
       THEN /\ loggerThread' = "done"
            /\ UNCHANGED handled
       ELSE /\ handled' = Append(handled, Head(logging_queue))
            /\ UNCHANGED loggerThread
    /\ UNCHANGED <<logPuts, rootHandlers, lockOwner, getLoggerPc, getLoggerCalls, nextRecord>>
    /\ UNCHANGED notLog

\* LoggerThread.stop, lines 110-111, as far as the logging variables go.
PutLoggerStop ==
    /\ LOGGER_STOP_SIGNAL \notin Range(logPuts)
    /\ logging_queue' = Append(logging_queue, LOGGER_STOP_SIGNAL)
    /\ logPuts' = Append(logPuts, LOGGER_STOP_SIGNAL)
    /\ UNCHANGED <<loggerThread, handled, rootHandlers, lockOwner, getLoggerPc,
                   getLoggerCalls, nextRecord>>

\* LoggerThread.stop, lines 110-111.
LoggerThreadStop ==
    /\ PutLoggerStop
    /\ UNCHANGED notLog

GetLoggerAcquireWithoutLock(t) ==
    /\ getLoggerPc[t] \in {"idle", "returned"}
    /\ Len(getLoggerCalls)
          + Cardinality({u \in DOMAIN getLoggerPc : getLoggerPc[u] \notin {"idle", "returned"}})
       < MaxGetLoggerCalls
    /\ getLoggerPc' = [getLoggerPc EXCEPT ![t] = "acquired"]
    /\ UNCHANGED <<logging_queue, loggerThread, handled, logPuts, rootHandlers, lockOwner,
                   getLoggerCalls, nextRecord>>
    /\ UNCHANGED notLog

\* get_logger, lines 151-153: logger_lock.acquire() returns once no other thread
\* holds the lock.
GetLoggerAcquire(t) ==
    /\ getLoggerPc[t] \in {"idle", "returned"}
    /\ Len(getLoggerCalls)
          + Cardinality({u \in DOMAIN getLoggerPc : getLoggerPc[u] \notin {"idle", "returned"}})
       < MaxGetLoggerCalls
    /\ lockOwner \in {"free", t}
    /\ lockOwner' = t
    /\ getLoggerPc' = [getLoggerPc EXCEPT ![t] = "acquired"]
    /\ UNCHANGED <<logging_queue, loggerThread, handled, logPuts, rootHandlers,
                   getLoggerCalls, nextRecord>>
    /\ UNCHANGED notLog

\* Line 154: `if not logger.hasHandlers()` on the root logger.
GetLoggerCheck(t) ==
    /\ getLoggerPc[t] = "acquired"
    /\ getLoggerPc' = [getLoggerPc EXCEPT ![t] =
                          IF rootHandlers = <<>> THEN "adding" ELSE "releasing"]
    /\ UNCHANGED <<logging_queue, loggerThread, handled, logPuts, rootHandlers, lockOwner,
                   getLoggerCalls, nextRecord>>
    /\ UNCHANGED notLog

\* Lines 155-158: a QueueHandler is added to the root logger.
GetLoggerAddHandler(t) ==
    /\ getLoggerPc[t] = "adding"
    /\ rootHandlers' = Append(rootHandlers, "QueueHandler")
    /\ getLoggerPc' = [getLoggerPc EXCEPT ![t] = "releasing"]
    /\ UNCHANGED <<logging_queue, loggerThread, handled, logPuts, lockOwner,
                   getLoggerCalls, nextRecord>>
    /\ UNCHANGED notLog

\* Lines 159-163: the lock is released and the adapter returned.
GetLoggerRelease(t) ==
    /\ getLoggerPc[t] = "releasing"
    /\ lockOwner' = IF lockOwner = t THEN "free" ELSE lockOwner
    /\ getLoggerPc' = [getLoggerPc EXCEPT ![t] = "returned"]
    /\ getLoggerCalls' = Append(getLoggerCalls, t)
    /\ UNCHANGED <<logging_queue, loggerThread, handled, logPuts, rootHandlers, nextRecord>>
    /\ UNCHANGED notLog

\* A thread logs through the adapter get_logger returned: every QueueHandler of
\* the root logger puts the record on the queue.
Emit(t) ==
    /\ getLoggerPc[t] = "returned"
    /\ nextRecord <= MaxLogRecords
    /\ LET puts == [i \in 1..Cardinality(QueueHandlers(rootHandlers)) |->
                       LogRecordOf(nextRecord, t)]
       IN /\ logging_queue' = logging_queue \o puts
          /\ logPuts' = logPuts \o puts
    /\ nextRecord' = nextRecord + 1
    /\ UNCHANGED <<loggerThread, handled, rootHandlers, lockOwner, getLoggerPc,
                   getLoggerCalls>>
    /\ UNCHANGED notLog

GetLoggerStep ==
    \E t \in Threads :
        \/ GetLoggerAcquire(t)
        \/ GetLoggerCheck(t)
        \/ GetLoggerAddHandler(t)
        \/ GetLoggerRelease(t)

EmitCall == \E t \in Threads : Emit(t)

InitLogging ==
    /\ FunctionsUnused
    /\ CsvUnused
    /\ HandlerUnused
    /\ logging_queue = <<>>
    /\ loggerThread = "notStarted"
    /\ handled = <<>>
    /\ logPuts = <<>>
    /\ rootHandlers \in RootHandlerChoices
    /\ lockOwner = "free"
    /\ getLoggerPc = [t \in Threads |-> "idle"]
    /\ getLoggerCalls = <<>>
    /\ nextRecord = 1
    /\ nextRow = 1
    /\ BufferedUnused
    /\ FanoutUnused
    /\ RunLossesUnused
    /\ DriverUnused
    /\ BigqueryUnused

NextLogging ==
    \/ LoggerThreadStart
    \/ LoggerThreadRun
    \/ LoggerThreadStop
    \/ GetLoggerStep
    \/ EmitCall

SpecLogging == InitLogging /\ [][NextLogging]_vars

-----------------------------------------------------------------------------
(* gcp/bigquery.py: Bigquery.insert_rows, BigqueryInsertStream;
   simulation_output.py: BigqueryRowWriter.write_rows *)

INSERT_ROW_RETRY_MAX_RETRIES == 5

\* The error list the physical insert number attempt_number of a call reports.
ErrorsOf(attempt_number) == <<attempt_number>>

RECURSIVE PhysicalInsertsOneMore(_, _, _)
PhysicalInsertsOneMore(rows, leadingErrors, attempt_number) ==
    LET errors == IF attempt_number <= leadingErrors THEN ErrorsOf(attempt_number) ELSE <<>>
        call == [rows |-> rows, errors |-> errors]
    IN IF errors = <<>> \/ attempt_number > INSERT_ROW_RETRY_MAX_RETRIES
       THEN <<call>>
       ELSE <<call>> \o PhysicalInsertsOneMore(rows, leadingErrors, attempt_number + 1)

\* The tenacity decorator of insert_rows, lines 125-130, around its body, lines
\* 157-162: client.insert_rows is called again while it reports errors
\* (retry_if_result), up to INSERT_ROW_RETRY_MAX_RETRIES attempts.  The first
\* leadingErrors physical inserts report errors.
RECURSIVE PhysicalInserts(_, _, _)
PhysicalInserts(rows, leadingErrors, attempt_number) ==
    LET errors == IF attempt_number <= leadingErrors THEN ErrorsOf(attempt_number) ELSE <<>>
        call == [rows |-> rows, errors |-> errors]
    IN IF errors = <<>> \/ attempt_number >= INSERT_ROW_RETRY_MAX_RETRIES
       THEN <<call>>
       ELSE <<call>> \o PhysicalInserts(rows, leadingErrors, attempt_number + 1)

\* Bigquery.insert_rows: its physical inserts and what it returns, the errors
\* of the last attempt (retry_error_callback), empty when that attempt had none.
insert_rows(rows, leadingErrors) ==
    LET calls == PhysicalInserts(rows, leadingErrors, 1)
    IN [calls |-> calls, errors |-> calls[Len(calls)].errors]

\* The histories after the insert_rows calls in results, made by caller.
RecordInsertRows(results, leadingErrors, caller) ==
    /\ insertRowsCalls' = insertRowsCalls \o
          [i \in 1..Len(results) |->
              [rows |-> results[i].calls[1].rows, errors |-> results[i].errors,
               leadingErrors |-> leadingErrors, caller |-> caller,
               physicalBefore |-> Len(physicalCalls),
               physicalAfter |-> Len(physicalCalls) + Len(results[i].calls)]]
    /\ physicalCalls' = physicalCalls \o Flatten([i \in 1..Len(results) |-> results[i].calls])

StreamFlushKeepsBatch(batch, total, leadingErrors) ==
    IF batch = <<>>
    THEN [batch |-> batch, total |-> total, raised |-> FALSE, errors |-> <<>>,
          inserts |-> <<>>]
    ELSE LET result == insert_rows(batch, leadingErrors)
         IN IF result.errors # <<>>
            THEN [batch |-> batch, total |-> total, raised |-> TRUE,
                  errors |-> result.errors, inserts |-> <<result>>]
            ELSE [batch |-> batch, total |-> total + Len(batch), raised |-> FALSE,
                  errors |-> <<>>, inserts |-> <<result>>]

\* BigqueryInsertStream.flush, lines 239-252: the stream's state after it,
\* whether it raised Errors (and which), and the insert_rows call it made, if any.
StreamFlush(batch, total, leadingErrors) ==
    IF batch = <<>>
    THEN [batch |-> batch, total |-> total, raised |-> FALSE, errors |-> <<>>,
          inserts |-> <<>>]
    ELSE LET result == insert_rows(batch, leadingErrors)
         IN IF result.errors # <<>>
            THEN [batch |-> batch, total |-> total, raised |-> TRUE,
                  errors |-> result.errors, inserts |-> <<result>>]
            ELSE [batch |-> <<>>, total |-> total + Len(batch), raised |-> FALSE,
                  errors |-> <<>>, inserts |-> <<result>>]

\* Two transient errors, as in test_insert_rows__retry_on_error_ends_with_success.
TransientErrors == 2

\* How many physical inserts in a row report errors: none, two, or so many that
\* every attempt does; no insert, no choice.
LeadingErrorChoices(batch) ==
    IF batch = <<>> THEN {0} ELSE {0, TransientErrors, MaxInsertErrors}

\* BigqueryInsertStream.insert, lines 230-233: a list extends the batch, anything
\* else is appended.
BatchWith(batch, rows) ==
    IF ~rows.isDict THEN batch \o rows.items ELSE Append(batch, rows.items[1])

ReachedBatchSizeStrict(batch, size) == Len(batch) > size

\* BigqueryInsertStream.insert, line 236.
ReachedBatchSize(batch, size) == Len(batch) >= size

\* What is recorded of a call on the stream.
StreamOp(op, rows, batchNow, flushes, result) ==
    [op |-> op, rows |-> rows, batchBefore |-> stream_batch, totalBefore |-> stream_total,
     batchNow |-> batchNow, flushes |-> flushes,
     batchAfter |-> result.batch, totalAfter |-> result.total,
     raised |-> result.raised, errors |-> result.errors,
     callsBefore |-> Len(insertRowsCalls),
     callsAfter |-> Len(insertRowsCalls) + Len(result.inserts)]

StreamCallsMade ==
    Cardinality({i \in 1..Len(streamOps) : streamOps[i].op \in {"insert", "flush"}})

\* The arguments given to insert and to write_rows: a dict or a list of two rows.
InsertArguments(from) == {DictOf(from), ListOf(FreshRows(from, 2))}

\* The state of a stream after BigqueryInsertStream.__init__, lines 207-216,
\* which refuses a batch_size below 1.
InitBigquery ==
    /\ FunctionsUnused
    /\ CsvUnused
    /\ HandlerUnused
    /\ stream_batch = <<>>
    /\ stream_total = 0
    /\ batch_size \in 1..MaxBatchSize
    /\ streamScope = "constructed"
    /\ physicalCalls = <<>>
    /\ insertRowsCalls = <<>>
    /\ streamOps = <<>>
    /\ writeRowsReturns = <<>>
    /\ nextRow = 1
    /\ BufferedUnused
    /\ FanoutUnused
    /\ RunLossesUnused
    /\ LoggingUnused
    /\ DriverUnused

\* BigqueryInsertStream.__enter__, lines 218-221.
StreamEnter ==
    /\ streamScope = "constructed"
    /\ streamScope' = "entered"
    /\ stream_batch' = <<>>
    /\ stream_total' = 0
    /\ UNCHANGED <<batch_size, physicalCalls, insertRowsCalls, streamOps, writeRowsReturns,
                   nextRow>>
    /\ UNCHANGED notBigquery

\* BigqueryInsertStream.insert, lines 229-237, in the body of the with block.
\* Errors raised by its flush leave the body.
StreamInsert(rows) ==
    /\ streamScope = "entered"
    /\ StreamCallsMade < MaxStreamCalls
    /\ LET batchNow == BatchWith(stream_batch, rows)
           flushing == ReachedBatchSize(batchNow, batch_size)
       IN \E leadingErrors \in LeadingErrorChoices(IF flushing THEN batchNow ELSE <<>>) :
             LET result == IF flushing
                           THEN StreamFlush(batchNow, stream_total, leadingErrors)
                           ELSE [batch |-> batchNow, total |-> stream_total,
                                 raised |-> FALSE, errors |-> <<>>, inserts |-> <<>>]
             IN /\ stream_batch' = result.batch
                /\ stream_total' = result.total
                /\ streamScope' = IF result.raised THEN "bodyRaised" ELSE "entered"
                /\ RecordInsertRows(result.inserts, leadingErrors, "flush")
                /\ streamOps' = Append(streamOps,
                      StreamOp("insert", rows, batchNow, IF flushing THEN 1 ELSE 0, result))
    /\ nextRow' = nextRow + Len(rows.items)
    /\ UNCHANGED <<batch_size, writeRowsReturns>>
    /\ UNCHANGED notBigquery

StreamInsertCall == \E rows \in InsertArguments(nextRow) : StreamInsert(rows)

\* BigqueryInsertStream.flush, lines 239-252, called in the body of the with block.
StreamFlushCall ==
    /\ streamScope = "entered"
    /\ StreamCallsMade < MaxStreamCalls
    /\ \E leadingErrors \in LeadingErrorChoices(stream_batch) :
          LET result == StreamFlush(stream_batch, stream_total, leadingErrors)
          IN /\ stream_batch' = result.batch
             /\ stream_total' = result.total
             /\ streamScope' = IF result.raised THEN "bodyRaised" ELSE "entered"
             /\ RecordInsertRows(result.inserts, leadingErrors, "flush")
             /\ streamOps' = Append(streamOps,
                   StreamOp("flush", ListOf(<<>>), stream_batch, 1, result))
    /\ UNCHANGED <<batch_size, writeRowsReturns, nextRow>>
    /\ UNCHANGED notBigquery

\* Something else in the body of the with block raises.
StreamBodyRaises ==
    /\ streamScope = "entered"
    /\ streamScope' = "bodyRaised"
    /\ UNCHANGED <<stream_batch, stream_total, batch_size, physicalCalls, insertRowsCalls,
                   streamOps, writeRowsReturns, nextRow>>
    /\ UNCHANGED notBigquery

StreamExitSkipsFlushOnError ==
    /\ streamScope \in {"entered", "bodyRaised"}
    /\ \E leadingErrors \in LeadingErrorChoices(stream_batch) :
          LET result == IF streamScope = "bodyRaised"
                        THEN [batch |-> stream_batch, total |-> stream_total,
                              raised |-> FALSE, errors |-> <<>>, inserts |-> <<>>]
                        ELSE StreamFlush(stream_batch, stream_total, leadingErrors)
          IN /\ stream_batch' = result.batch
             /\ stream_total' = result.total
             /\ streamScope' = IF result.raised THEN "exitRaised"
                               ELSE IF streamScope = "bodyRaised" THEN "exitedRaising"
                               ELSE "exited"
             /\ RecordInsertRows(result.inserts, leadingErrors, "flush")
             /\ streamOps' = Append(streamOps,
                   StreamOp("exit", ListOf(<<>>), stream_batch,
                            IF streamScope = "bodyRaised" THEN 0 ELSE 1, result))
    /\ UNCHANGED <<batch_size, writeRowsReturns, nextRow>>
    /\ UNCHANGED notBigquery

\* BigqueryInsertStream.__exit__, lines 223-227: flush, whose Errors leave the
\* scope; flush returns None, so line 226 raises nothing; an exception of the
\* body goes on when __exit__ returns.
StreamExit ==
    /\ streamScope \in {"entered", "bodyRaised"}
    /\ \E leadingErrors \in LeadingErrorChoices(stream_batch) :
          LET result == StreamFlush(stream_batch, stream_total, leadingErrors)
          IN /\ stream_batch' = result.batch
             /\ stream_total' = result.total
             /\ streamScope' = IF result.raised THEN "exitRaised"
                               ELSE IF streamScope = "bodyRaised" THEN "exitedRaising"
                               ELSE "exited"
             /\ RecordInsertRows(result.inserts, leadingErrors, "flush")
             /\ streamOps' = Append(streamOps,
                   StreamOp("exit", ListOf(<<>>), stream_batch, 1, result))
    /\ UNCHANGED <<batch_size, writeRowsReturns, nextRow>>
    /\ UNCHANGED notBigquery

\* BigqueryRowWriter.write_rows, simulation_output.py lines 403-407: what
\* insert_rows returns is not looked at.
WriteRows(rows) ==
    /\ Len(writeRowsReturns) < MaxWriteRows
    /\ \E leadingErrors \in 0..MaxInsertErrors :
          LET result == insert_rows(rows, leadingErrors)
          IN /\ RecordInsertRows(<<result>>, leadingErrors, "write_rows")
             /\ writeRowsReturns' = Append(writeRowsReturns,
                   [rows |-> rows, raised |-> FALSE, call |-> Len(insertRowsCalls) + 1])
    /\ nextRow' = nextRow + Len(rows.items)
    /\ UNCHANGED <<stream_batch, stream_total, batch_size, streamScope, streamOps>>
    /\ UNCHANGED notBigquery

WriteRowsOfWriter == \E rows \in InsertArguments(nextRow) : WriteRows(rows)

NextBigquery ==
    \/ StreamEnter
    \/ StreamInsertCall
    \/ StreamFlushCall
    \/ StreamBodyRaises
    \/ StreamExit

SpecBigquery == InitBigquery /\ [][NextBigquery]_vars

\* A BigqueryRowWriter after lazy_initialize; no stream is in use.
InitRowWriter ==
    /\ FunctionsUnused
    /\ CsvUnused
    /\ HandlerUnused
    /\ nextRow = 1
    /\ BigqueryUnused
    /\ BufferedUnused
    /\ FanoutUnused
    /\ RunLossesUnused
    /\ LoggingUnused
    /\ DriverUnused

NextRowWriter == WriteRowsOfWriter

SpecRowWriter == InitRowWriter /\ [][NextRowWriter]_vars

-----------------------------------------------------------------------------
(* generate_losses.py: main, lines 698-775.  A simulation is seen from main: it
   starts, sends rows, logs, and either returns or raises once its retries are
   exhausted. *)

\* sims: the simulations given to map / imap_unordered, in order.
Sims == <<"trial1", "trial2">>

TrialsIn(status) == {t \in Range(Sims) : trial[t] = status}

Stopped == \E i \in 1..Len(fanoutSends) : fanoutSends[i].op = "stop"

\* The state when main reaches line 700 (single process: SerialOutput built) or
\* line 747 (multi-process: logging thread and output process started).
InitDriver ==
    /\ FunctionsUnused
    /\ CsvUnused
    /\ HandlerUnused
    /\ fanout \in {"serial", "multi"}
    /\ output_writers = <<"csv", "bigquery">>
    /\ writerCalls = IF fanout = "serial"
                     THEN InitializeWriters(output_writers, "caller") ELSE <<>>
    /\ output_queue = <<>>
    /\ consumer = "notStarted"
    /\ fanoutSends = <<>>
    /\ dequeued = <<>>
    /\ writerFailures = MaxWriterFailures
    /\ nextRow = 1
    /\ logging_queue = <<>>
    /\ loggerThread = IF fanout = "multi" THEN "running" ELSE "notStarted"
    /\ handled = <<>>
    /\ logPuts = <<>>
    /\ rootHandlers \in RootHandlerChoices
    /\ lockOwner = "free"
    /\ getLoggerPc = [t \in Range(Sims) |-> "idle"]
    /\ getLoggerCalls = <<>>
    /\ nextRecord = 1
    /\ mainPc = "map"
    /\ trial = [t \in Range(Sims) |-> "pending"]
    /\ BufferedUnused
    /\ RunLossesUnused
    /\ BigqueryUnused

\* map (line 700) runs the simulations one after the other and stops at the
\* first that raises; the pool (line 748) runs them in its worker processes,
\* which go on while main is alive.
MayStart(t) ==
    IF fanout = "serial"
    THEN /\ mainPc = "map"
         /\ TrialsIn("running") = {}
         /\ TrialsIn("failed") = {}
         /\ \A i \in 1..Len(Sims) : Sims[i] = t =>
                \A j \in 1..(i - 1) : trial[Sims[j]] = "returned"
    ELSE mainPc # "done"

\* run_losses is entered; line 164 gets the logger: with a logging_queue (the
\* multi-process branch) the root logger of the worker gets a QueueHandler
\* unless it has handlers.
TrialStarts(t) ==
    /\ trial[t] = "pending"
    /\ MayStart(t)
    /\ trial' = [trial EXCEPT ![t] = "running"]
    /\ rootHandlers' = IF fanout = "multi" /\ rootHandlers = <<>>
                       THEN <<"QueueHandler">> ELSE rootHandlers
    /\ getLoggerPc' = [getLoggerPc EXCEPT ![t] = "returned"]
    /\ getLoggerCalls' = Append(getLoggerCalls, t)
    /\ UNCHANGED <<mainPc, logging_queue, loggerThread, handled, logPuts, lockOwner,
                   nextRecord>>
    /\ UNCHANGED <<nextRow, bufVars, fanVars, runVars, bqVars, auxVars>>

\* What a simulation sends: a list of one fresh row for the premiums output.
TrialSendArguments(from) == {<<OUTPUT_PREMIUMS, ListOf(FreshRows(from, 1))>>}

\* outputs.send in run_losses.
TrialSends(t) ==
    /\ trial[t] = "running"
    /\ \E arguments \in TrialSendArguments(nextRow) :
          IF fanout = "serial"
          THEN SerialSend(arguments[1], arguments[2])
          ELSE MultiprocessingSend(t, arguments[1], arguments[2])

\* A log call in run_losses.
TrialLogs(t) ==
    /\ trial[t] = "running"
    /\ nextRecord <= MaxTrialLogs
    /\ Emit(t)

\* run_losses returns sim_id, line 484.
TrialReturns(t) ==
    /\ trial[t] = "running"
    /\ trial' = [trial EXCEPT ![t] = "returned"]
    /\ UNCHANGED mainPc
    /\ UNCHANGED notDriver

\* The last attempt of run_losses raised: tenacity raises RetryError, lines 124-127.
TrialFails(t) ==
    /\ trial[t] = "running"
    /\ trial' = [trial EXCEPT ![t] = "failed"]
    /\ UNCHANGED mainPc
    /\ UNCHANGED notDriver

MainCollectsEarly ==
    /\ mainPc = "map"
    /\ TrialsIn("returned") # {}
    /\ mainPc' = IF fanout = "serial" THEN "done" ELSE "stop"
    /\ UNCHANGED trial
    /\ UNCHANGED notDriver

\* list(...) of lines 700-707 and 747-760 has every result.
MainCollects ==
    /\ mainPc = "map"
    /\ TrialsIn("returned") = Range(Sims)
    /\ mainPc' = IF fanout = "serial" THEN "done" ELSE "stop"
    /\ UNCHANGED trial
    /\ UNCHANGED notDriver

\* list(...) meets the exception of a simulation: nothing catches it in main.
MainRaises ==
    /\ mainPc = "map"
    /\ TrialsIn("failed") # {}
    /\ mainPc' = "raised"
    /\ UNCHANGED trial
    /\ UNCHANGED notDriver

\* outputs.stop(), line 762.
MainStopsOutputs ==
    /\ mainPc = "stop"
    /\ PutStopSignal
    /\ mainPc' = "joinOutput"
    /\ UNCHANGED trial
    /\ UNCHANGED <<bufVars, runVars, logVars, bqVars, auxVars>>

\* output_process.join(), line 763.
MainJoinsOutput ==
    /\ mainPc = "joinOutput"
    /\ consumer \in {"done", "crashed"}
    /\ mainPc' = "stopLogging"
    /\ UNCHANGED trial
    /\ UNCHANGED notDriver

\* logging_thread.stop(), line 772.
MainStopsLogging ==
    /\ mainPc = "stopLogging"
    /\ PutLoggerStop
    /\ mainPc' = "joinLogging"
    /\ UNCHANGED trial
    /\ UNCHANGED <<nextRow, bufVars, fanVars, runVars, bqVars, auxVars>>

\* logging_thread.join(), line 773.
MainJoinsLogging ==
    /\ mainPc = "joinLogging"
    /\ loggerThread = "done"
    /\ mainPc' = "close"
    /\ UNCHANGED trial
    /\ UNCHANGED notDriver

\* pool.close() and pool.join(), lines 774-775.
MainClosesPool ==
    /\ mainPc = "close"
    /\ TrialsIn("running") = {}
    /\ mainPc' = "done"
    /\ UNCHANGED trial
    /\ UNCHANGED notDriver

TrialStep ==
    \E t \in Range(Sims) :
        \/ TrialStarts(t)
        \/ TrialSends(t)
        \/ TrialLogs(t)
        \/ TrialReturns(t)
        \/ TrialFails(t)

NextDriver ==
    \/ TrialStep
    \/ MainCollects
    \/ MainRaises
    \/ MainStopsOutputs
    \/ MainJoinsOutput
    \/ MainStopsLogging
    \/ MainJoinsLogging
    \/ MainClosesPool
    \/ ProcessQueueStart
    \/ ProcessQueueStep
    \/ LoggerThreadRun

SpecDriver == InitDriver /\ [][NextDriver]_vars

-----------------------------------------------------------------------------
(* The pure functions: generate_loss_ratio (generate_losses.py),
   format_column_name_for_output (simulation_output.py), str_to_int and
   int_to_str (db/v2/geo_types.py).  A str is the sequence of its characters. *)

Returned(value) == [returned |-> TRUE, value |-> value]

\* ---- generate_loss_ratio ----

\* Premiums and losses: the small ones, those of the documented example
\* (200, 50) and 32, for which 1/32 = 0.03125 lies halfway between 0.0312 and
\* 0.0313 and is a binary fraction, so that round sees the tie itself.
RatioPremiums == 0..MaxRatioPremium \cup {32, 200}
RatioLosses == 0..MaxRatioLoss \cup {50}

\* ---- format_column_name_for_output ----

INVALID_OUTPUT_COLUMN_CHARACTERS == <<" ", ".", "-">>
DEFAULT_COLUMN_REPLACEMENT_CHAR == "_"

\* The characters column names, prefixes and geo-type strings are made of.
Alphabet == {"a", "_", " ", ".", "-"}

RECURSIVE StringsUpTo(_)
StringsUpTo(n) ==
    IF n = 0 THEN {<<>>}
    ELSE LET shorter == StringsUpTo(n - 1)
         IN shorter \cup {Append(t, c) : t \in {u \in shorter : Len(u) = n - 1}, c \in Alphabet}

ColumnNames == StringsUpTo(MaxNameLen)

\* No prefix (None or ''), a prefix of valid characters, a prefix with a space.
PrefixChoices == {<<>>, <<"a">>, <<"a", " ">>}

\* The default replacement, and two others, one of them an invalid character.
ReplacementChoices == {DEFAULT_COLUMN_REPLACEMENT_CHAR, "a", "-"}

ReplaceFirst(name, old, new) ==
    [i \in 1..Len(name) |->
        IF name[i] = old /\ \A j \in 1..(i - 1) : name[j] # old THEN new ELSE name[i]]

\* str.replace(old, new) for single characters.
Replace(name, old, new) ==
    [i \in 1..Len(name) |-> IF name[i] = old THEN new ELSE name[i]]

\* The loop of lines 422-423 from its k-th turn.
RECURSIVE ReplaceInvalid(_, _, _)
ReplaceInvalid(name, k, replace_invalid_with) ==
    IF k > Len(INVALID_OUTPUT_COLUMN_CHARACTERS) THEN name
    ELSE ReplaceInvalid(Replace(name, INVALID_OUTPUT_COLUMN_CHARACTERS[k],
                                replace_invalid_with),
                        k + 1, replace_invalid_with)

\* format_column_name_for_output, lines 419-428, on sequences of characters.
FormatColumnName(column_name, prefix, replace_invalid_with) ==
    LET replaced == ReplaceInvalid(column_name, 1, replace_invalid_with)
    IN IF prefix # <<>> THEN prefix \o <<"_">> \o replaced ELSE replaced

\* ---- db/v2/geo_types.py ----

GEO_TYPE_UNKNOWN == -1
GEO_TYPE_STATE_VALUE == 1
GEO_TYPE_COUNTY_VALUE == 2
GEO_TYPE_ZIP_VALUE == 3
GEO_TYPE_TOTAL_VALUE == 4

GEO_TYPE_TOTAL_STR == <<"t", "o", "t", "a", "l">>
GEO_TYPE_STATE_STR == <<"s", "t", "a", "t", "e">>
GEO_TYPE_COUNTY_STR == <<"c", "o", "u", "n", "t", "y">>
GEO_TYPE_ZIP_STR == <<"z", "i", "p">>
GEO_TYPE_UNKNOWN_STR ==
    <<"_", "u", "n", "k", "n", "o", "w", "n", "_", "g", "e", "o", "_", "t", "y", "p", "e", "_">>

\* The items of the dict GEO_TYPE_MAPPINGS, in insertion order.
GEO_TYPE_MAPPINGS ==
    << <<GEO_TYPE_TOTAL_STR, GEO_TYPE_TOTAL_VALUE>>,
       <<GEO_TYPE_STATE_STR, GEO_TYPE_STATE_VALUE>>,
       <<GEO_TYPE_COUNTY_STR, GEO_TYPE_COUNTY_VALUE>>,
       <<GEO_TYPE_ZIP_STR, GEO_TYPE_ZIP_VALUE>>,
       <<GEO_TYPE_UNKNOWN_STR, GEO_TYPE_UNKNOWN>> >>

LowerCase == <<"a", "b", "c", "d", "e", "f", "g", "h", "i", "j", "k", "l", "m",
               "n", "o", "p", "q", "r", "s", "t", "u", "v", "w", "x", "y", "z">>
UpperCase == <<"A", "B", "C", "D", "E", "F", "G", "H", "I", "J", "K", "L", "M",
               "N", "O", "P", "Q", "R", "S", "T", "U", "V", "W", "X", "Y", "Z">>
Whitespace == {" ", "\t", "\n"}

\* str.lower and str.upper.
lower(str) ==
    [i \in 1..Len(str) |->
        IF \E k \in 1..Len(UpperCase) : UpperCase[k] = str[i]
        THEN LowerCase[CHOOSE k \in 1..Len(UpperCase) : UpperCase[k] = str[i]]
        ELSE str[i]]
upper(str) ==
    [i \in 1..Len(str) |->
        IF \E k \in 1..Len(LowerCase) : LowerCase[k] = str[i]
        THEN UpperCase[CHOOSE k \in 1..Len(LowerCase) : LowerCase[k] = str[i]]
        ELSE str[i]]

\* str.strip(): without the leading and trailing whitespace.
strip(str) ==
    LET inked == {i \in 1..Len(str) : str[i] \notin Whitespace}
    IN IF inked = {} THEN <<>>
       ELSE LET first == CHOOSE i \in inked : \A j \in inked : i <= j
                last == CHOOSE i \in inked : \A j \in inked : j <= i
            IN SubSeq(str, first, last)

\* dict.get(key, default) on the items of a dict.
MappingGet(items, key, default) ==
    IF \E k \in 1..Len(items) : items[k][1] = key
    THEN items[CHOOSE k \in 1..Len(items) : items[k][1] = key][2]
    ELSE default

StrToIntAsGiven(geo_type) == MappingGet(GEO_TYPE_MAPPINGS, geo_type, GEO_TYPE_UNKNOWN)

\* geo_types.str_to_int, lines 35-37, on sequences of characters.  The operator
\* str_to_int above is this function on the four names run_losses passes,
\* which strip().lower() leaves as they are.
StrToInt(geo_type) == MappingGet(GEO_TYPE_MAPPINGS, lower(strip(geo_type)), GEO_TYPE_UNKNOWN)

\* geo_types.int_to_str, lines 40-45: the first item with the value.
int_to_str(geo_type_value) ==
    IF \E k \in 1..Len(GEO_TYPE_MAPPINGS) : GEO_TYPE_MAPPINGS[k][2] = geo_type_value
    THEN GEO_TYPE_MAPPINGS[CHOOSE k \in 1..Len(GEO_TYPE_MAPPINGS) :
                              /\ GEO_TYPE_MAPPINGS[k][2] = geo_type_value
                              /\ \A j \in 1..(k - 1) : GEO_TYPE_MAPPINGS[j][2] # geo_type_value][1]
    ELSE GEO_TYPE_UNKNOWN_STR

\* The strings given to str_to_int: the keys of the mapping and 'bad value' (the
\* one of test_unknown_str), each as it is, capitalised and in capitals, alone
\* or between whitespace.
BAD_VALUE == <<"b", "a", "d", " ", "v", "a", "l", "u", "e">>
KnownNames == {GEO_TYPE_TOTAL_STR, GEO_TYPE_STATE_STR, GEO_TYPE_COUNTY_STR, GEO_TYPE_ZIP_STR}
capitalize(str) == IF str = <<>> THEN str ELSE upper(SubSeq(str, 1, 1)) \o SubSeq(str, 2, Len(str))
Casings(str) == {str, capitalize(str), upper(str)}
Padded(str) == {left \o str \o right : left \in {<<>>, <<" ">>}, right \in {<<>>, <<"\n">>}}
VariantsOf(str) == UNION {Padded(c) : c \in Casings(str)}
GeoTypeStrings == UNION {VariantsOf(n) : n \in KnownNames \cup {GEO_TYPE_UNKNOWN_STR, BAD_VALUE}}

\* The integers given to int_to_str: around the codes, and the one of
\* test_unknown_int.
GeoTypeInts == (-2)..MaxGeoCode \cup {-238392}

\* ---- the calls ----

FunctionCalls ==
    [fn : {"generate_loss_ratio"}, premium : RatioPremiums, loss : RatioLosses]
    \cup [fn : {"format_column_name_for_output"}, column_name : ColumnNames,
          prefix : PrefixChoices, replace_invalid_with : ReplacementChoices]
    \cup [fn : {"str_to_int"}, geo_type : GeoTypeStrings]
    \cup [fn : {"int_to_str"}, geo_type_value : GeoTypeInts]

InitFunctions ==
    /\ BufferedUnused /\ FanoutUnused /\ RunLossesUnused /\ LoggingUnused
    /\ DriverUnused /\ BigqueryUnused /\ CsvUnused /\ HandlerUnused
    /\ nextRow = 1
    /\ fnCall \in FunctionCalls
    /\ fnResult = NotReturned

CallGenerateLossRatio ==
    /\ fnCall.fn = "generate_loss_ratio"
    /\ ~fnResult.returned
    /\ fnResult' = Returned(generate_loss_ratio(fnCall.premium, fnCall.loss))
    /\ UNCHANGED <<fnCall, csvVars, evtVars, notAux>>

\* The call, and the call on its result that gives no prefix.
CallFormatColumnName ==
    /\ fnCall.fn = "format_column_name_for_output"
    /\ ~fnResult.returned
    /\ LET value == FormatColumnName(fnCall.column_name, fnCall.prefix,
                                     fnCall.replace_invalid_with)
       IN fnResult' = [returned |-> TRUE, value |-> value,
                       again |-> FormatColumnName(value, <<>>, fnCall.replace_invalid_with)]
    /\ UNCHANGED <<fnCall, csvVars, evtVars, notAux>>

\* The call, and int_to_str of its result.
CallStrToInt ==
    /\ fnCall.fn = "str_to_int"
    /\ ~fnResult.returned
    /\ LET value == StrToInt(fnCall.geo_type)
       IN fnResult' = [returned |-> TRUE, value |-> value, back |-> int_to_str(value)]
    /\ UNCHANGED <<fnCall, csvVars, evtVars, notAux>>

CallIntToStr ==
    /\ fnCall.fn = "int_to_str"
    /\ ~fnResult.returned
    /\ fnResult' = Returned(int_to_str(fnCall.geo_type_value))
    /\ UNCHANGED <<fnCall, csvVars, evtVars, notAux>>

NextFunctions ==
    \/ CallGenerateLossRatio
    \/ CallFormatColumnName
    \/ CallStrToInt
    \/ CallIntToStr

SpecFunctions == InitFunctions /\ [][NextFunctions]_vars

-----------------------------------------------------------------------------
(* simulation_output.py: LocalCsvWriter, lines 282-352 *)

\* The arguments output_dir and storm_type of the writer of the model.
CsvOutputDir == "out"
CsvStormType == "hail"

\* format_filepath, lines 318-325: output_dir does not end with '/', a slash is
\* put in.
format_filepath(output_name) == <<CsvOutputDir, "/", CsvStormType, "_", output_name, ".csv">>

\* A line a file held before the writer was made.
OldLine == [header |-> FALSE, row |-> 0, cells |-> <<>>]

\* csv.DictWriter.writeheader: the fieldnames.
HeaderLine(fieldnames) ==
    [header |-> TRUE, row |-> 0,
     cells |-> [i \in 1..Len(fieldnames) |-> [column |-> fieldnames[i], blank |-> FALSE]]]

\* csv.DictWriter.writerow: the value of each fieldname, blank for a fieldname
\* the row lacks.
DataLine(fieldnames, row) ==
    [header |-> FALSE, row |-> row.id,
     cells |-> [i \in 1..Len(fieldnames) |->
                  [column |-> fieldnames[i], blank |-> fieldnames[i] \notin Range(row.keys)]]]

EnforceFirstOutputOnly(exist) ==
    [calls |-> <<ALL_OUTPUTS[1]>>, raised |-> ALL_OUTPUTS[1] \in exist]

\* _enforce_output_files_do_not_exist, lines 305-311: os.path.exists is asked
\* about the known outputs in turn, up to the first whose file exists.
EnforceOutputFilesDoNotExist(exist) ==
    IF \E k \in 1..Len(ALL_OUTPUTS) : ALL_OUTPUTS[k] \in exist
    THEN LET first == CHOOSE k \in 1..Len(ALL_OUTPUTS) :
                          /\ ALL_OUTPUTS[k] \in exist
                          /\ \A j \in 1..(k - 1) : ALL_OUTPUTS[j] \notin exist
         IN [calls |-> SubSeq(ALL_OUTPUTS, 1, first), raised |-> TRUE]
    ELSE [calls |-> ALL_OUTPUTS, raised |-> FALSE]

\* LocalCsvWriter.__init__, lines 289-303.
CsvConstruct ==
    /\ csvState = "notConstructed"
    /\ IF overwrite
       THEN /\ csvState' = "constructed"
            /\ UNCHANGED existsCalls
       ELSE LET checked == EnforceOutputFilesDoNotExist(existing)
            IN /\ existsCalls' = checked.calls
               /\ csvState' = IF checked.raised THEN "initializationError" ELSE "constructed"
    /\ file_writers' = <<>>
    /\ UNCHANGED <<overwrite, existing, openCalls, files, csvWriteCalls>>
    /\ UNCHANGED <<fnVars, evtVars, notAux>>

\* lazy_initialize, lines 313-316: the output directory exists afterwards.
CsvLazyInitialize ==
    /\ csvState = "constructed"
    /\ csvState' = "initialized"
    /\ UNCHANGED <<overwrite, existing, existsCalls, file_writers, openCalls, files,
                   csvWriteCalls>>
    /\ UNCHANGED <<fnVars, evtVars, notAux>>

WriterOf(writers, filepath) ==
    IF \E i \in 1..Len(writers) : writers[i].filepath = filepath
    THEN CHOOSE i \in 1..Len(writers) : writers[i].filepath = filepath
    ELSE 0

\* `for row in rows`, lines 350-352, with get_writer, lines 327-341: the file is
\* opened for writing (and so emptied) when file_writers holds no writer for
\* the path, the DictWriter made with the keys of the row and kept; writerow
\* raises ValueError for a row with a key that is no fieldname.
RECURSIVE WriteRowsLoop(_, _, _)
WriteRowsLoop(st, filepath, rowList) ==
    IF rowList = <<>> THEN st
    ELSE LET row == Head(rowList)
             have == WriterOf(st.file_writers, filepath) # 0
             writers == IF have THEN st.file_writers
                        ELSE Append(st.file_writers,
                                    [filepath |-> filepath, fieldnames |-> row.keys])
             lines == IF have THEN st.lines ELSE <<>>
             fieldnames == writers[WriterOf(writers, filepath)].fieldnames
         IN IF Range(row.keys) \subseteq Range(fieldnames)
            THEN WriteRowsLoop([file_writers |-> writers,
                                lines |-> Append(lines, DataLine(fieldnames, row)),
                                opens |-> st.opens + (IF have THEN 0 ELSE 1),
                                raised |-> FALSE],
                               filepath, Tail(rowList))
            ELSE [file_writers |-> writers, lines |-> lines,
                  opens |-> st.opens + (IF have THEN 0 ELSE 1), raised |-> TRUE]

\* The columns of the rows written: those of a geo-type row, and the same with
\* one more.
CsvColumns == {<<"sim_id", "total">>, <<"sim_id", "total", "IA">>}

\* The rows given to the n-th call of write_rows: one dict, or a list of two.
CsvRowChoices(n) ==
    {DictOf([id |-> 10 * n + 1, keys |-> c]) : c \in CsvColumns}
    \cup {ListOf(<<[id |-> 10 * n + 1, keys |-> c], [id |-> 10 * n + 2, keys |-> d]>>) :
             c \in CsvColumns, d \in CsvColumns}

\* write_rows, lines 343-352.
CsvWriteRows(output_name, rows) ==
    /\ csvState = "initialized"
    /\ Len(csvWriteCalls) < MaxCsvWrites
    /\ LET filepath == format_filepath(output_name)
           done == WriteRowsLoop([file_writers |-> file_writers, lines |-> files[filepath],
                                  opens |-> 0, raised |-> FALSE],
                                 filepath, AsRowList(rows))
       IN /\ file_writers' = done.file_writers
          /\ files' = [files EXCEPT ![filepath] = done.lines]
          /\ openCalls' = IF done.opens > 0 THEN Append(openCalls, filepath) ELSE openCalls
          /\ existing' = IF done.opens > 0 THEN existing \cup {output_name} ELSE existing
          /\ csvWriteCalls' = Append(csvWriteCalls,
                [output_name |-> output_name, rows |-> rows, raised |-> done.raised])
    /\ UNCHANGED <<csvState, overwrite, existsCalls>>
    /\ UNCHANGED <<fnVars, evtVars, notAux>>

CsvWriteRowsCall ==
    \E output_name \in Range(ALL_OUTPUTS) :
        \E rows \in CsvRowChoices(Len(csvWriteCalls) + 1) : CsvWriteRows(output_name, rows)

\* A writer about to be made, with either value of overwrite, in a directory in
\* which the files of some of the known outputs exist.
InitCsvWriter ==
    /\ FunctionsUnused
    /\ HandlerUnused
    /\ BufferedUnused /\ FanoutUnused /\ RunLossesUnused /\ LoggingUnused
    /\ DriverUnused /\ BigqueryUnused
    /\ nextRow = 1
    /\ csvState = "notConstructed"
    /\ overwrite \in BOOLEAN
    /\ existing \in SUBSET Range(ALL_OUTPUTS)
    /\ existsCalls = <<>>
    /\ file_writers = <<>>
    /\ openCalls = <<>>
    /\ files = [f \in {format_filepath(o) : o \in Range(ALL_OUTPUTS)} |->
                   IF \E o \in existing : f = format_filepath(o) THEN <<OldLine>> ELSE <<>>]
    /\ csvWriteCalls = <<>>

NextCsvWriter ==
    \/ CsvConstruct
    \/ CsvLazyInitialize
    \/ CsvWriteRowsCall

SpecCsvWriter == InitCsvWriter /\ [][NextCsvWriter]_vars

-----------------------------------------------------------------------------
(* main.py: run_storm_simulation, lines 166-201, and _start_simulation, lines
   106-156 *)

STORM_TYPE_HAIL == "hail"
SUPPORTED_STORM_TYPES == {STORM_TYPE_HAIL}
DEFAULT_STORM_TYPE == STORM_TYPE_HAIL
DEFAULT_OUTPUT_BIGQUERY == TRUE

\* A value the event's dict does not hold.
Absent == "absent"

\* The inbound events and what their processing meets: whether the payload
\* decodes, and to a dict; the fields of the dict; whether PROJECT_ID is set in
\* the environment; whether run_losses, if called, returns or raises.
CloudEvents ==
    [payload : {"undecodable", "notADict", "dict"},
     sim_id : {Absent, "1"},
     run_timestamp : {Absent, "1"},
     storm_type : {Absent, STORM_TYPE_HAIL, "tornado"},
     output_bigquery : {Absent, "true", "false"},
     project_id : BOOLEAN,
     run_losses : {"returns", "raises"}]

\* data.get(key, default).
DataGet(value, default) == IF value = Absent THEN default ELSE value

\* logging.info, warning, error(message): a record handled by the root logger.
LogRecordAt(level, message) == [level |-> level, message |-> message, formatted |-> TRUE]

\* logging.exception(message, e): the record has the argument e and a message
\* without placeholder; formatting it fails in the handler, which reports the
\* message and the argument on stderr (Handler.handleError) and does not raise.
LogException(message) == [level |-> "ERROR", message |-> message, formatted |-> FALSE]

\* The exception the code before `_start_simulation` raises for an event, if any.
ErrorBeforeStart(event) ==
    CASE event.payload = "undecodable" -> "ValueError"
      [] event.payload = "notADict" -> "TypeError"
      [] event.sim_id = Absent -> "KeyError"
      [] event.run_timestamp = Absent -> "KeyError"
      [] OTHER -> ""

\* generate_losses.setup_bigquery_writer, lines 521-526: without project_id it
\* raises Exception; with one it calls BigqueryRowWriter(project_id,
\* dataset=dataset), which lacks the required storm_type: TypeError.  The
\* result is the exception raised.
setup_bigquery_writer(project_id) == IF ~project_id THEN "Exception" ELSE "TypeError"

\* Lines 184-190: the payload is decoded and the required fields are read.
DecodeAndPullFields ==
    /\ eventPc = "received"
    /\ eventPc' = IF ErrorBeforeStart(cloud_event) # "" THEN "excepted" ELSE "decoded"
    /\ UNCHANGED <<cloud_event, eventLog, trgVars>>
    /\ UNCHANGED <<fnVars, csvVars, notAux>>

\* Lines 193-197 and 120-136: the optional fields, then _start_simulation up to
\* the call of run_losses.
StartSimulation ==
    /\ eventPc = "decoded"
    /\ LET storm_type == DataGet(cloud_event.storm_type, DEFAULT_STORM_TYPE)
           output_bigquery == IF cloud_event.output_bigquery = Absent
                              THEN DEFAULT_OUTPUT_BIGQUERY
                              ELSE cloud_event.output_bigquery = "true"
       IN IF storm_type \notin SUPPORTED_STORM_TYPES
          THEN /\ eventLog' = Append(eventLog, LogRecordAt("ERROR", "Unsupported storm type"))
               /\ eventPc' = "returned"
          ELSE IF output_bigquery
          THEN /\ eventLog' = Append(eventLog, LogRecordAt("INFO", "Starting simulation"))
               /\ eventPc' = IF setup_bigquery_writer(cloud_event.project_id) # ""
                             THEN "excepted" ELSE "simulating"
          ELSE /\ eventLog' = eventLog
                     \o <<LogRecordAt("INFO", "Starting simulation"),
                          LogRecordAt("WARNING", "Running simulation without output.")>>
               /\ eventPc' = "simulating"
    /\ UNCHANGED <<cloud_event, trgVars>>
    /\ UNCHANGED <<fnVars, csvVars, notAux>>

\* Lines 137-156: run_losses returns, or raises and is caught; the duration is
\* logged and the handler returns.
SimulationEnds ==
    /\ eventPc = "simulating"
    /\ eventLog' = eventLog
          \o (IF cloud_event.run_losses = "raises"
              THEN <<LogException("Simulation failed."),
                     LogRecordAt("ERROR", "Exception from simulation")>>
              ELSE <<>>)
          \o <<LogRecordAt("INFO", "Simulation took")>>
    /\ eventPc' = "returned"
    /\ UNCHANGED <<cloud_event, trgVars>>
    /\ UNCHANGED <<fnVars, csvVars, notAux>>

ExceptionEscapes ==
    /\ eventPc = "excepted"
    /\ eventPc' = "raised"
    /\ UNCHANGED <<cloud_event, eventLog, trgVars>>
    /\ UNCHANGED <<fnVars, csvVars, notAux>>

\* Lines 199-201: `except Exception`, the error logged, the handler returns.
HandleException ==
    /\ eventPc = "excepted"
    /\ eventLog' = Append(eventLog, LogException("Failed to process simulation event"))
    /\ eventPc' = "returned"
    /\ UNCHANGED <<cloud_event, trgVars>>
    /\ UNCHANGED <<fnVars, csvVars, notAux>>

InitCloudEvent ==
    /\ FunctionsUnused
    /\ CsvUnused
    /\ BufferedUnused /\ FanoutUnused /\ RunLossesUnused /\ LoggingUnused
    /\ DriverUnused /\ BigqueryUnused
    /\ nextRow = 1
    /\ cloud_event \in CloudEvents
    /\ eventPc = "received"
    /\ eventLog = <<>>
    /\ TriggerUnused

NextCloudEvent ==
    \/ DecodeAndPullFields
    \/ StartSimulation
    \/ SimulationEnds
    \/ HandleException

SpecCloudEvent == InitCloudEvent /\ [][NextCloudEvent]_vars

-----------------------------------------------------------------------------
(* main.py: _trigger_simulations, lines 59-103, and the delivery of what it
   publishes to run_storm_simulation *)

DEFAULT_NUM_SIMS == 3

\* The calls of _trigger_simulations: storm_type None (Absent) or a name,
\* num_sims (0 standing for the default), output_bigquery None or False, and
\* whether SKIP_PUBSUB is set in the environment.
TriggerRequests ==
    [storm_type : {Absent, STORM_TYPE_HAIL, "tornado"},
     num_sims : 0..MaxNumSims,
     output_bigquery : {Absent, "false"},
     skip_pubsub : BOOLEAN]

\* Lines 75-79: `storm_type or DEFAULT_STORM_TYPE`, `num_sims or DEFAULT_NUM_SIMS`.
StormTypeOf(request) == DataGet(request.storm_type, DEFAULT_STORM_TYPE)
NumSimsOf(request) == IF request.num_sims = 0 THEN DEFAULT_NUM_SIMS ELSE request.num_sims

\* Lines 87-93: the message of one simulation.
SimulationMessage(request, id) ==
    [storm_type |-> StormTypeOf(request),
     sim_id |-> id,
     output_bigquery |-> IF request.output_bigquery = Absent
                         THEN (IF DEFAULT_OUTPUT_BIGQUERY THEN "true" ELSE "false")
                         ELSE request.output_bigquery,
     run_timestamp |-> "1"]

\* Lines 75-103: the error for an unsupported storm type is logged and the
\* function goes on; one message per sim_id of range(num_sims) is published,
\* unless SKIP_PUBSUB is set.
TriggerSimulations ==
    /\ triggerPc = "requested"
    /\ eventLog' = IF StormTypeOf(trigger_request) \notin SUPPORTED_STORM_TYPES
                   THEN Append(eventLog, LogRecordAt("ERROR", "Unsupported storm type"))
                   ELSE eventLog
    /\ published' = IF trigger_request.skip_pubsub THEN published
                    ELSE published
                         \o [i \in 1..NumSimsOf(trigger_request) |->
                                SimulationMessage(trigger_request, i - 1)]
    /\ triggerPc' = "returned"
    /\ UNCHANGED <<trigger_request, deliveries, cloud_event, eventPc>>
    /\ UNCHANGED <<fnVars, csvVars, notAux>>

\* Pub/Sub hands the next published message to run_storm_simulation, the
\* handler being idle; PROJECT_ID is set or not, run_losses returns or raises.
DeliverEvent ==
    /\ eventPc \in {"none", "returned"}
    /\ deliveries < Len(published)
    /\ deliveries' = deliveries + 1
    /\ \E project_id \in BOOLEAN, outcome \in {"returns", "raises"} :
          LET message == published[deliveries + 1]
          IN cloud_event' =
                [payload |-> "dict", sim_id |-> ToString(message.sim_id),
                 run_timestamp |-> message.run_timestamp,
                 storm_type |-> message.storm_type,
                 output_bigquery |-> message.output_bigquery,
                 project_id |-> project_id, run_losses |-> outcome]
    /\ eventPc' = "received"
    /\ UNCHANGED <<eventLog, trigger_request, triggerPc, published>>
    /\ UNCHANGED <<fnVars, csvVars, notAux>>

InitTrigger ==
    /\ FunctionsUnused
    /\ CsvUnused
    /\ BufferedUnused /\ FanoutUnused /\ RunLossesUnused /\ LoggingUnused
    /\ DriverUnused /\ BigqueryUnused
    /\ nextRow = 1
    /\ cloud_event = <<>>
    /\ eventPc = "none"
    /\ eventLog = <<>>
    /\ trigger_request \in TriggerRequests
    /\ triggerPc = "requested"
    /\ published = <<>>
    /\ deliveries = 0

NextTrigger ==
    \/ TriggerSimulations
    \/ DeliverEvent
    \/ DecodeAndPullFields
    \/ StartSimulation
    \/ SimulationEnds
    \/ HandleException

SpecTrigger == InitTrigger /\ [][NextTrigger]_vars


-----------------------------------------------------------------------------
(* Properties of main, multi-process branch *)

LoggerStopped == LOGGER_STOP_SIGNAL \in Range(logPuts)

\* The index of the stop string in the output queue's history, 0 when absent.
StopPosition ==
    IF Stopped
    THEN CHOOSE i \in 1..Len(fanoutSends) : fanoutSends[i].op = "stop"
    ELSE 0

\* C11: in the multi-process driver the output stop sentinel is enqueued only
\* when every simulation has returned, so that nothing is ever enqueued behind
\* it; the logging stop sentinel is enqueued only after the output stop and after
\* the output process has ended; and main goes past the join of the logging
\* thread only when that thread has ended.
C11_StopSentinelsAfterTrialsAndInOrder ==
    fanout = "multi" =>
        /\ Stopped =>
              /\ \A t \in Range(Sims) : trial[t] = "returned"
              /\ StopPosition = Len(fanoutSends)
              /\ \A i \in 1..Len(output_queue) :
                    output_queue[i].isStr => i = Len(output_queue)
        /\ LoggerStopped => Stopped /\ consumer \in {"done", "crashed"}
        /\ mainPc \in {"close", "done"} => LoggerStopped /\ loggerThread = "done"

\* Main has finished a multi-process run in which both simulations sent rows.
C11_Witness ==
    /\ fanout = "multi"
    /\ mainPc = "done"
    /\ Stopped
    /\ \A t \in Range(Sims) : \E i \in 1..Len(fanoutSends) : fanoutSends[i].by = t
    /\ consumer = "done"
    /\ loggerThread = "done"

\* C12: a multi-process run of main is over, by returning or by the exception
\* of a simulation that exhausted its retries, only when both stop sentinels
\* have been enqueued.
C12_MainOverOnlyAfterBothSentinels ==
    (fanout = "multi" /\ mainPc \in {"done", "raised"}) =>
        Stopped /\ LoggerStopped

\* C20: when a simulation has failed after its retries, every other submitted
\* simulation that has not started yet can still start, in single-process and
\* in multi-process mode.
C20_FailureLeavesOtherTrialsRunnable ==
    TrialsIn("failed") # {} =>
        \A t \in Range(Sims) : trial[t] = "pending" => MayStart(t)

-----------------------------------------------------------------------------
(* Properties of Bigquery.insert_rows, BigqueryInsertStream and
   BigqueryRowWriter *)

\* The physical inserts made by the i-th call of Bigquery.insert_rows.
PhysicalCallsOf(i) ==
    SubSeq(physicalCalls, insertRowsCalls[i].physicalBefore + 1,
           insertRowsCalls[i].physicalAfter)

\* The calls on the stream in which flush ran.
FlushingOps == {i \in 1..Len(streamOps) : streamOps[i].flushes = 1}

\* The call of Bigquery.insert_rows made by the i-th call on the stream.
InsertCallOf(i) == insertRowsCalls[streamOps[i].callsAfter]

\* C13: a call of Bigquery.insert_rows whose first k physical inserts report
\* errors makes k + 1 physical inserts of the same rows and returns no error
\* when k is below the configured maximum of 5 attempts (3 inserts for k = 2);
\* otherwise it makes exactly 5 and returns the errors of the last one, and the
\* flush that called it raises Errors carrying them.
C13_InsertRowsRetriesUpToMaxAttempts ==
    /\ \A i \in 1..Len(insertRowsCalls) :
          LET c == insertRowsCalls[i]
              made == PhysicalCallsOf(i)
          IN /\ \A j \in 1..Len(made) : made[j].rows = c.rows
             /\ \A j \in 1..(Len(made) - 1) : made[j].errors # <<>>
             /\ c.errors = made[Len(made)].errors
             /\ IF c.leadingErrors < INSERT_ROW_RETRY_MAX_RETRIES
                THEN Len(made) = c.leadingErrors + 1 /\ c.errors = <<>>
                ELSE Len(made) = INSERT_ROW_RETRY_MAX_RETRIES /\ c.errors # <<>>
    /\ \A i \in FlushingOps :
          streamOps[i].callsAfter > streamOps[i].callsBefore =>
             /\ streamOps[i].raised <=> InsertCallOf(i).errors # <<>>
             /\ streamOps[i].raised => streamOps[i].errors = InsertCallOf(i).errors

\* One call succeeded at its third physical insert, and a flush raised after
\* five.
C13_Witness ==
    /\ \E i \in 1..Len(insertRowsCalls) :
          /\ insertRowsCalls[i].leadingErrors = TransientErrors
          /\ Len(PhysicalCallsOf(i)) = 3
          /\ insertRowsCalls[i].errors = <<>>
    /\ \E i \in FlushingOps :
          /\ streamOps[i].op = "flush"
          /\ streamOps[i].raised
          /\ Len(PhysicalCallsOf(streamOps[i].callsAfter)) = 5
          /\ streamOps[i].errors = ErrorsOf(5)

\* C14: every call of BigqueryRowWriter.write_rows that returned normally had
\* its rows inserted: the insert_rows call it made ended without errors.
C14_WriteRowsReturnsOnlyWhenInserted ==
    \A i \in 1..Len(writeRowsReturns) :
        ~writeRowsReturns[i].raised =>
            insertRowsCalls[writeRowsReturns[i].call].errors = <<>>

\* C15: a flush of an empty batch makes no insert and changes nothing; a flush
\* of a non-empty batch makes one insert_rows call with the batch, and then
\* either that call had no errors, the batch is empty and total has grown by
\* the batch's length, or Errors is raised with the errors of the last attempt
\* and batch and total are as before.
C15_FlushEmptiesBatchOrRaisesUnchanged ==
    \A i \in FlushingOps :
        LET o == streamOps[i]
        IN IF o.batchNow = <<>>
           THEN /\ o.callsAfter = o.callsBefore
                /\ ~o.raised
                /\ o.batchAfter = <<>>
                /\ o.totalAfter = o.totalBefore
           ELSE /\ o.callsAfter = o.callsBefore + 1
                /\ InsertCallOf(i).rows = o.batchNow
                /\ IF InsertCallOf(i).errors = <<>>
                   THEN /\ ~o.raised
                        /\ o.batchAfter = <<>>
                        /\ o.totalAfter = o.totalBefore + Len(o.batchNow)
                   ELSE /\ o.raised
                        /\ o.errors = physicalCalls[InsertCallOf(i).physicalAfter].errors
                        /\ o.batchAfter = o.batchNow
                        /\ o.totalAfter = o.totalBefore

\* A flush that wrote its batch, a flush of an empty batch and a flush that
\* raised.
C15_Witness ==
    /\ \E i \in FlushingOps :
          streamOps[i].batchNow # <<>> /\ ~streamOps[i].raised
             /\ streamOps[i].totalAfter > streamOps[i].totalBefore
    /\ \E i \in FlushingOps : streamOps[i].batchNow = <<>>
    /\ \E i \in FlushingOps : streamOps[i].raised

\* The batch an insert leaves before it looks at the batch size.
BatchAfterExtend(i) == streamOps[i].batchBefore \o streamOps[i].rows.items

InsertOps == {i \in 1..Len(streamOps) : streamOps[i].op = "insert"}

ExitOps == {i \in 1..Len(streamOps) : streamOps[i].op = "exit"}

\* The rows given to insert so far, in order.
InsertedRows ==
    Flatten([i \in 1..Len(streamOps) |->
                IF streamOps[i].op = "insert" THEN streamOps[i].rows.items ELSE <<>>])

\* The rows of the physical inserts that reported no error, in order.
WrittenRows ==
    Flatten([i \in 1..Len(physicalCalls) |->
                IF physicalCalls[i].errors = <<>> THEN physicalCalls[i].rows ELSE <<>>])

\* C17: leaving the with block calls flush once; with pending rows that flush
\* makes one insert_rows call with all of them in insertion order, and either
\* they are written, so that everything inserted has been written in order, or
\* Errors is raised out of the scope.  The scope is left once.
C17_ExitFlushesOnceOrRaises ==
    /\ WrittenRows \o stream_batch = InsertedRows
    /\ Cardinality(ExitOps) <= 1
    /\ (streamScope \in {"exited", "exitedRaising", "exitRaised"}) <=> (ExitOps # {})
    /\ \A i \in ExitOps :
          LET o == streamOps[i]
          IN /\ i = Len(streamOps)
             /\ o.flushes = 1
             /\ o.batchNow = o.batchBefore
             /\ IF o.batchBefore = <<>>
                THEN o.callsAfter = o.callsBefore /\ ~o.raised
                ELSE /\ o.callsAfter = o.callsBefore + 1
                     /\ InsertCallOf(i).rows = o.batchBefore
                     /\ \/ /\ ~o.raised
                           /\ InsertCallOf(i).errors = <<>>
                           /\ stream_batch = <<>>
                           /\ WrittenRows = InsertedRows
                        \/ /\ o.raised
                           /\ streamScope = "exitRaised"
                           /\ o.errors = InsertCallOf(i).errors

\* The scope was left with the rows of two inserts pending, and one insert
\* wrote them.
C17_Witness ==
    \E i \in ExitOps :
        /\ streamScope = "exited"
        /\ Len(streamOps[i].batchBefore) >= 2
        /\ Cardinality(InsertOps) >= 2
        /\ \A j \in InsertOps : streamOps[j].flushes = 0
        /\ ~streamOps[i].raised
        /\ stream_total = Len(InsertedRows)

-----------------------------------------------------------------------------
(* Properties of LoggerThread and get_logger *)

\* How many entries the logging thread has taken off the queue.
LogDequeued == Len(logPuts) - Len(logging_queue)

\* The position of the sentinel among the puts, one past the end when absent.
LoggerStopPosition ==
    IF LoggerStopped
    THEN CHOOSE i \in 1..Len(logPuts) : logPuts[i] = LOGGER_STOP_SIGNAL
    ELSE Len(logPuts) + 1

\* C18: the logging thread takes the entries in the order they were put; what
\* it has handled is exactly the records it took before the sentinel, once
\* each, in that order and under the logger name they carry; it ends when it
\* takes the sentinel and takes nothing after it.
C18_LoggerThreadHandlesFifoUntilStop ==
    /\ LogDequeued >= 0
    /\ logging_queue = SubSeq(logPuts, LogDequeued + 1, Len(logPuts))
    /\ LogDequeued <= LoggerStopPosition
    /\ handled = SubSeq(logPuts, 1,
                        IF LogDequeued < LoggerStopPosition
                        THEN LogDequeued ELSE LoggerStopPosition - 1)
    /\ \A i \in 1..Len(handled) : ~handled[i].isNone /\ handled[i].name = "root"
    /\ (loggerThread = "done") <=> (LogDequeued = LoggerStopPosition)

\* The thread has ended after handling a record, and a record put after the
\* sentinel is left on the queue.
C18_Witness ==
    /\ loggerThread = "done"
    /\ Len(handled) >= 1
    /\ logging_queue # <<>>
    /\ \A i \in 1..Len(logging_queue) : logging_queue[i] \notin Range(handled)

\* C19: whatever the interleaving of the get_logger calls of a process's
\* threads, its root logger has at most one QueueHandler, and no record is put
\* on the logging queue twice.
C19_AtMostOneQueueHandler ==
    /\ Cardinality(QueueHandlers(rootHandlers)) <= 1
    /\ \A i, j \in 1..Len(logPuts) :
          (i < j /\ ~logPuts[i].isNone) => logPuts[i] # logPuts[j]

\* Both threads have called get_logger, three calls in all, one QueueHandler was
\* added, and both threads have logged a record.
C19_Witness ==
    /\ Range(getLoggerCalls) = Threads
    /\ Len(getLoggerCalls) >= 3
    /\ Cardinality(QueueHandlers(rootHandlers)) = 1
    /\ \A t \in Threads : \E i \in 1..Len(logPuts) : logPuts[i].by = t

-----------------------------------------------------------------------------
(* Properties of BufferedOutputStream, stated over the history of add and   *)
(* send calls.                                                              *)

\* The add calls made since the buffer was last re-created, for the last call.
EpochAdds == SubSeq(addCalls, lastCall.epochBefore + 1, Len(addCalls))

\* The rows handed to add for output_name by the calls in adds, in call order.
RECURSIVE RowsAddedFor(_, _)
RowsAddedFor(adds, output_name) ==
    IF adds = <<>> THEN <<>>
    ELSE (IF Head(adds).name = output_name THEN Head(adds).rows ELSE <<>>)
            \o RowsAddedFor(Tail(adds), output_name)

\* The rows passed to outputs.send for output_name by the calls in sends, in order.
RECURSIVE RowsSentFor(_, _)
RowsSentFor(sends, output_name) ==
    IF sends = <<>> THEN <<>>
    ELSE (IF Head(sends).name = output_name THEN Head(sends).rows.items ELSE <<>>)
            \o RowsSentFor(Tail(sends), output_name)

\* The output kinds of adds in the order in which they were first named.
RECURSIVE KindOrder(_)
KindOrder(adds) ==
    IF adds = <<>> THEN <<>>
    ELSE LET rest == KindOrder(SubSeq(adds, 1, Len(adds) - 1))
             k == adds[Len(adds)].name
         IN IF k \in Range(rest) THEN rest ELSE Append(rest, k)

\* What a flush of the rows added by adds has to send: one (kind, rows) per kind
\* that was given rows, in the order in which the kinds were first named.
ExpectedSends(adds) ==
    SelectSeq([i \in 1..Len(KindOrder(adds)) |->
                  [name |-> KindOrder(adds)[i],
                   rows |-> RowsAddedFor(adds, KindOrder(adds)[i])]],
              LAMBDA e : e.rows # <<>>)

\* The sends made by the last call.
SendsOfLastCall == SubSeq(sendCalls, lastCall.sendsBefore + 1, Len(sendCalls))

\* The sends of the last call are the first sends of expected, each with the whole
\* list of its kind, and all of them unless a send raised.
LastCallSent(expected) ==
    LET made == SendsOfLastCall
    IN /\ Len(made) <= Len(expected)
       /\ \A i \in 1..Len(made) :
             /\ made[i].name = expected[i].name
             /\ made[i].rows = ListOf(expected[i].rows)
             /\ made[i].raised = (lastCall.raised /\ i = Len(made))
       /\ ~lastCall.raised => Len(made) = Len(expected)
       /\ lastCall.raised => Len(made) >= 1

TotalRows(buf) == Len(Flatten([i \in 1..Len(buf) |-> buf[i].rows]))

\* C4: after an add call that returns, every kind's buffer holds fewer than
\* per_output_max_rows rows and the buffers hold fewer than total_buffer_max_rows
\* rows in all.
C4_BuffersBelowMaxAfterAdd ==
    (lastCall.op = "add" /\ ~lastCall.raised) =>
        /\ \A k \in StreamOutputs : Len(BufferedRows(buffer, k)) < per_output_max_rows
        /\ TotalRows(buffer) < total_buffer_max_rows
        /\ total_in_buffer = TotalRows(buffer)

\* An add returned without flushing, after an earlier flush, and left a kind one
\* row below its threshold.
C4_Witness ==
    /\ lastCall.op = "add" /\ ~lastCall.raised /\ ~lastCall.flushed
    /\ flushCalls >= 1
    /\ \E k \in StreamOutputs : Len(BufferedRows(buffer, k)) = per_output_max_rows - 1
    /\ TotalRows(buffer) = total_buffer_max_rows - 1

\* C5: an add that brings its kind to per_output_max_rows rows calls flush exactly
\* once; that flush calls send once per kind holding rows, with all the rows of the
\* kind, in the order in which the kinds were first named since the last flush,
\* and never for a kind without rows.  (A send that raises ends the flush: the
\* sends made are then the first ones of that list.)
C5_AddAtMaxFlushesAllKindsInOrder ==
    (/\ lastCall.op = "add"
     /\ Len(RowsAddedFor(EpochAdds, lastCall.name)) >= per_output_max_rows) =>
        /\ flushCalls = lastCall.flushesBefore + 1
        /\ LastCallSent(ExpectedSends(EpochAdds))
        /\ \A i \in 1..Len(SendsOfLastCall) : SendsOfLastCall[i].rows.items # <<>>

\* An add reached per_output_max_rows for its kind while a second kind held rows
\* and a third kind was named without rows; the flush sent two kinds, the kind that
\* reached the threshold last.
C5_Witness ==
    /\ lastCall.op = "add" /\ ~lastCall.raised
    /\ Len(RowsAddedFor(EpochAdds, lastCall.name)) >= per_output_max_rows
    /\ total_buffer_max_rows = DEFAULT_TOTAL_BUFFER_MAX_ROWS
    /\ Len(KindOrder(EpochAdds)) = 3
    /\ Len(SendsOfLastCall) = 2
    /\ SendsOfLastCall[2].name = lastCall.name

\* C6: leaving the with block calls flush exactly once, after a body that completed
\* and after a body that raised; when no send of that flush raises, the rows still
\* buffered are all sent and the buffers are empty afterwards.
C6_ExitFlushesOnce ==
    (lastCall.op = "exit") =>
        /\ scope = "exited"
        /\ flushCalls = lastCall.flushesBefore + 1
        /\ LastCallSent(ExpectedSends(EpochAdds))
        /\ ~lastCall.raised => (buffer = <<>> /\ total_in_buffer = 0)

\* The body raised with rows of two kinds buffered, and the exit sent both.
C6_Witness ==
    /\ lastCall.op = "exit" /\ lastCall.bodyRaised /\ ~lastCall.raised
    /\ Len(SendsOfLastCall) = 2
    /\ buffer = <<>>

-----------------------------------------------------------------------------
(* Properties of SerialOutput and MultiprocessingOutput, stated on the calls *)
(* made on the writers and on the history of send and stop calls.            *)

CallSignature(c) == <<c.writer, c.op, c.name, c.rows>>

Signatures(calls) == [k \in 1..Len(calls) |-> CallSignature(calls[k])]

\* What one lazy_initialize, and one write_rows(output_name, rows), on every
\* writer in registration order looks like.
InitializeEachWriter ==
    [j \in 1..Len(output_writers) |->
        <<output_writers[j], "lazy_initialize", "", ListOf(<<>>)>>]
WriteEachWriter(output_name, rows) ==
    [j \in 1..Len(output_writers) |-> <<output_writers[j], "write_rows", output_name, rows>>]

\* The writer calls made between the start of the i-th send and the start of the
\* next one.
CallsDuringSend(i) ==
    LET from == fanoutSends[i].callsBefore
        to == IF i = Len(fanoutSends) THEN Len(writerCalls)
              ELSE fanoutSends[i + 1].callsBefore
    IN Signatures(SubSeq(writerCalls, from + 1, to))

CallsBeforeFirstSend ==
    Signatures(SubSeq(writerCalls, 1, IF fanoutSends = <<>> THEN Len(writerCalls)
                                      ELSE fanoutSends[1].callsBefore))

\* C10: a SerialOutput has called lazy_initialize exactly once on every writer when
\* its construction is over and before any send; every send(output_name, rows)
\* that returns has called write_rows(output_name, rows) exactly once on every
\* writer, in registration order, and nothing else, by the time it returns; a send
\* that raises has made a prefix of these calls.
C10_SerialSendWritesEachWriterInOrder ==
    /\ fanout = "none" => writerCalls = <<>>
    /\ fanout = "serial" =>
          /\ CallsBeforeFirstSend = InitializeEachWriter
          /\ \A i \in 1..Len(fanoutSends) :
                LET send == fanoutSends[i]
                    expected == WriteEachWriter(send.name, send.rows)
                IN IF send.raised
                   THEN /\ IsPrefix(CallsDuringSend(i), expected)
                        /\ CallsDuringSend(i) # <<>>
                   ELSE /\ CallsDuringSend(i) = expected
                        /\ \A k \in send.callsBefore + 1..send.callsBefore + Len(expected) :
                              ~writerCalls[k].raised

C10_Witness ==
    /\ fanout = "serial"
    /\ Len(output_writers) = 2
    /\ Len(fanoutSends) = 3
    /\ \A i \in 1..3 : ~fanoutSends[i].raised
    /\ \E i, j \in 1..3 : fanoutSends[i].rows.isDict /\ ~fanoutSends[j].rows.isDict
    /\ Len(writerCalls) = 8

\* The messages put on the queue, in the order of the send and stop calls.
Enqueued ==
    [i \in 1..Len(fanoutSends) |->
        IF fanoutSends[i].op = "stop" THEN StrMessage(STOP_SIGNAL)
        ELSE TupleMessage(fanoutSends[i].name, fanoutSends[i].rows)]

\* The position of the stop sentinel among the messages put, or one past the last.
StopIndex ==
    IF \E i \in 1..Len(fanoutSends) : fanoutSends[i].op = "stop"
    THEN CHOOSE i \in 1..Len(fanoutSends) : fanoutSends[i].op = "stop"
    ELSE Len(fanoutSends) + 1

WriteRowsCalls == SelectSeq(writerCalls, LAMBDA c : c.op = "write_rows")

\* C8: process_queue dequeues the messages in the order they were put; while it has
\* not been ended by an exception of a writer, the write_rows calls made are, for
\* each message dequeued before the stop sentinel in turn, one call on each writer
\* in registration order; having dequeued the sentinel it is over, and what was put
\* after the sentinel is neither dequeued nor dispatched.
C8_ProcessQueueDispatchesFifoUntilStop ==
    /\ IsPrefix(dequeued, Enqueued)
    /\ Len(dequeued) <= StopIndex
    /\ (consumer = "done") = (Len(dequeued) = StopIndex /\ StopIndex <= Len(fanoutSends))
    /\ LET dispatched == Flatten([i \in 1..Len(dequeued) |->
                            IF i = StopIndex THEN <<>>
                            ELSE WriteEachWriter(fanoutSends[i].name, fanoutSends[i].rows)])
       IN IF consumer = "crashed"
          THEN /\ IsPrefix(Signatures(WriteRowsCalls), dispatched)
               /\ Len(WriteRowsCalls) > Len(dispatched) - Len(output_writers)
          ELSE Signatures(WriteRowsCalls) = dispatched

C8_Witness ==
    /\ consumer = "done"
    /\ Len(output_writers) = 2
    /\ Len(dequeued) = 3
    /\ output_queue # <<>>
    /\ Len(WriteRowsCalls) = 4

\* C9: a send of MultiprocessingOutput puts exactly one message (output_name, rows)
\* on the queue and calls no writer: every lazy_initialize and every write_rows is
\* made by the consumer process, none before it has started; once it has started,
\* lazy_initialize has been called exactly once on each writer, before any
\* write_rows on that writer.
C9_SendOnlyEnqueuesConsumerCallsWriters ==
    /\ dequeued \o output_queue = Enqueued
    /\ \A k \in 1..Len(writerCalls) : writerCalls[k].by = "consumer"
    /\ consumer = "notStarted" => writerCalls = <<>>
    /\ \A j \in 1..Len(output_writers) :
          LET inits == {k \in 1..Len(writerCalls) :
                          /\ writerCalls[k].writer = output_writers[j]
                          /\ writerCalls[k].op = "lazy_initialize"}
              writes == {k \in 1..Len(writerCalls) :
                          /\ writerCalls[k].writer = output_writers[j]
                          /\ writerCalls[k].op = "write_rows"}
          IN /\ Cardinality(inits) = IF consumer = "notStarted" THEN 0 ELSE 1
             /\ \A w \in writes : \E k \in inits : k < w

C9_Witness ==
    /\ Len(output_writers) = 2
    /\ \E i, j \in 1..Len(fanoutSends) :
          /\ fanoutSends[i].by = "trial1" /\ fanoutSends[j].by = "trial2"
          /\ fanoutSends[i].callsBefore = 0
          /\ fanoutSends[j].callsBefore > 0
    /\ consumer = "running"
    /\ Len(WriteRowsCalls) = 4
    /\ output_queue = <<>>

-----------------------------------------------------------------------------
(* Properties of run_losses *)

\* C3: during sampling, whatever properties were added, the exposure total is at
\* most total_agg_limit plus the limit of one sampled property, the last one added.
C3_TotalExceedsCeilingByAtMostOneLimit ==
    exposure_dictionary.total <= total_agg_limit + curr_limit

C3_Witness ==
    /\ pc = "Sampling"
    /\ exposure_dictionary.total > total_agg_limit
    /\ Len(exposures) >= 3

\* The phases of one attempt of run_losses, in order.
RunLossesPhases ==
    <<"Sampling", "WritingExposures", "GeneratingStorms", "CalculatingImpact", "WritingLosses">>

\* C2: with either schema, an attempt of run_losses that is over and in which
\* neither the sample provider nor the geometry provider failed has passed
\* through sampling, exposure/premium emission, event generation, impact tallying
\* and loss/NLR emission, in this order, and has returned sim_id.
C2_AttemptPassesPhasesAndReturnsSimId ==
    \A i \in 1..Len(attempts) :
        ~attempts[i].providerFailed =>
            /\ attempts[i].outcome = "returned"
            /\ attempts[i].phases = RunLossesPhases

\* The rows write_rows has handed to `writer`, each with its output name.
DeliveredTo(writer) ==
    LET calls == SelectSeq(writerCalls,
                           LAMBDA c : c.writer = writer /\ c.op = "write_rows")
    IN Flatten([k \in 1..Len(calls) |->
                  [r \in 1..Len(AsRowList(calls[k].rows)) |->
                      [name |-> calls[k].name, row |-> AsRowList(calls[k].rows)[r]]]])

\* What tells the rows of one simulation apart: the output kind and, with the
\* geo-type schema, the geography.
RowIdentity(d) ==
    IF output_schema_version = GEO_TYPE_ROW_OUTPUT_SCHEMA_VERSION
    THEN <<d.name, d.row.sim_id, d.row.geo_type, d.row.geography>>
    ELSE <<d.name, d.row.sim_id, 0, "">>

\* C1: every writer is handed each row of the simulation at most once, also when
\* run_losses is retried; and once run_losses has returned and, in multi-process
\* mode, the output process is over, every writer has been handed a row of every
\* output kind.
C1_EachRowDeliveredExactlyOnce ==
    \A j \in 1..Len(output_writers) :
        LET delivered == DeliveredTo(output_writers[j])
        IN /\ \A a, b \in 1..Len(delivered) :
                 a # b => RowIdentity(delivered[a]) # RowIdentity(delivered[b])
           /\ (pc = "returned" /\ (fanout = "multi" => consumer = "done")) =>
                 \A k \in 1..Len(ALL_OUTPUTS) :
                    \E a \in 1..Len(delivered) : delivered[a].name = ALL_OUTPUTS[k]

-----------------------------------------------------------------------------
(* Properties of the pure functions *)

\* C21: generate_loss_ratio(premium, loss) returns 0 whenever premium is 0 and
\* otherwise loss / premium rounded to four decimals, i.e. a number of
\* ten-thousandths at most half a ten-thousandth from the quotient; for a
\* premium of 200 and a loss of 50 it returns 0.25.
C21_LossRatioIsZeroOrRoundedQuotient ==
    (fnCall.fn = "generate_loss_ratio" /\ fnResult.returned) =>
        LET premium == fnCall.premium
            loss == fnCall.loss
            error == fnResult.value * premium - loss * 10000
        IN /\ premium = 0 => fnResult.value = 0
           /\ premium # 0 => 2 * error <= premium /\ -(2 * error) <= premium
           /\ (premium = 200 /\ loss = 50) => fnResult.value = 2500

C21_Witness ==
    /\ fnCall.fn = "generate_loss_ratio"
    /\ fnCall.premium = 200 /\ fnCall.loss = 50
    /\ fnResult.returned /\ fnResult.value = 2500

\* What format_column_name_for_output does to the name and with the prefix:
\* the result is the name with every ' ', '.' and '-' replaced and every other
\* character kept in place, behind prefix + '_' when a prefix is given.
ColumnNameReplacedAndPrefixed ==
    LET name == fnCall.column_name
        prefix == fnCall.prefix
        value == fnResult.value
        offset == IF prefix # <<>> THEN Len(prefix) + 1 ELSE 0
    IN /\ Len(value) = offset + Len(name)
       /\ \A i \in 1..Len(name) :
             value[offset + i] = IF name[i] \in {" ", ".", "-"}
                                 THEN fnCall.replace_invalid_with ELSE name[i]
       /\ prefix # <<>> => SubSeq(value, 1, offset) = prefix \o <<"_">>

\* C22, as stated: format_column_name_for_output replaces every space, dot and
\* hyphen of the name, keeps the other characters in place and prepends
\* prefix + '_' when given a prefix; applied without prefix to its own result it
\* returns the result unchanged.
C22_FormatReplacesPrefixesAndIsIdempotent ==
    (fnCall.fn = "format_column_name_for_output" /\ fnResult.returned) =>
        /\ ColumnNameReplacedAndPrefixed
        /\ fnResult.again = fnResult.value

\* C22, amended: the same, the result being returned unchanged by the second
\* application when the prefix (which is prepended as given) holds no space,
\* dot or hyphen.
C22_FormatIsIdempotentForValidPrefix ==
    (fnCall.fn = "format_column_name_for_output" /\ fnResult.returned) =>
        /\ ColumnNameReplacedAndPrefixed
        /\ (\A i \in 1..Len(fnCall.prefix) : fnCall.prefix[i] \notin {" ", ".", "-"}) =>
              fnResult.again = fnResult.value

C22_Witness ==
    /\ fnCall.fn = "format_column_name_for_output"
    /\ fnCall.column_name = <<"a", " ">>
    /\ fnCall.prefix = <<"a">>
    /\ fnCall.replace_invalid_with = "_"
    /\ fnResult.returned
    /\ fnResult.value = <<"a", "_", "a", "_">>
    /\ fnResult.again = fnResult.value

\* The code of a geo-type name.
CodeOfName(name) ==
    CASE name = <<"s", "t", "a", "t", "e">> -> 1
      [] name = <<"c", "o", "u", "n", "t", "y">> -> 2
      [] name = <<"z", "i", "p">> -> 3
      [] name = <<"t", "o", "t", "a", "l">> -> 4

\* int_to_str of an integer that is no code of the mapping, 0 among them, is
\* the unknown name.
IntToStrOfOthersIsUnknown ==
    (fnCall.fn = "int_to_str" /\ fnResult.returned /\ fnCall.geo_type_value \notin {-1, 1, 2, 3, 4}) =>
        fnResult.value = GEO_TYPE_UNKNOWN_STR

\* C29, as stated: str_to_int maps 'state', 'county', 'zip' and 'total' to 1, 2,
\* 3 and 4 and any other string to -1; int_to_str(str_to_int(s)) is s for the
\* four names; int_to_str of an integer that is no mapped code is the unknown
\* name.
C29_GeoTypeCodesOfExactNames ==
    /\ (fnCall.fn = "str_to_int" /\ fnResult.returned) =>
          IF fnCall.geo_type \in KnownNames
          THEN /\ fnResult.value = CodeOfName(fnCall.geo_type)
               /\ fnResult.back = fnCall.geo_type
          ELSE fnResult.value = -1
    /\ IntToStrOfOthersIsUnknown

\* C29, amended: str_to_int maps a string to the code of the name it becomes
\* once stripped of surrounding whitespace and lower-cased ('STATE' and
\* ' state' map to 1), and to -1 when this is none of the four names; the round
\* trip gives the name back; int_to_str of an integer that is no mapped code is
\* the unknown name.
C29_GeoTypeCodesOfNormalisedNames ==
    /\ (fnCall.fn = "str_to_int" /\ fnResult.returned) =>
          IF \E n \in KnownNames : fnCall.geo_type \in VariantsOf(n)
          THEN LET n == CHOOSE n \in KnownNames : fnCall.geo_type \in VariantsOf(n)
               IN /\ fnResult.value = CodeOfName(n)
                  /\ fnResult.back = n
          ELSE fnResult.value = -1
    /\ IntToStrOfOthersIsUnknown

C29_Witness ==
    /\ fnCall.fn = "str_to_int"
    /\ fnCall.geo_type = <<" ", "S", "T", "A", "T", "E">>
    /\ fnResult.returned
    /\ fnResult.value = 1
    /\ fnResult.back = <<"s", "t", "a", "t", "e">>

-----------------------------------------------------------------------------
(* Properties of run_losses: the ceilings at their thresholds *)

\* C30: during sampling a property is skipped, and the sampling of its state
\* stopped, whenever before it is added the total exposure is at least
\* total_agg_limit - 15000 or the exposure of its state at least
\* state_agg_limit - 15000, a value equal to its threshold included: the
\* property the cursor yielded last was not added if one of the two held.
C30_PropertySkippedAtOrAboveThreshold ==
    (provided # <<>>) =>
        LET last == provided[Len(provided)]
            added == IF last.added THEN last.prop.limit ELSE 0
            total_before == exposure_dictionary.total - added
            state_before == exposure_dictionary.state[last.prop.state] - added
        IN (\/ total_before >= total_agg_limit - 15000
            \/ state_before >= state_agg_limit - 15000) => ~last.added

-----------------------------------------------------------------------------
(* Properties of run_losses: what is emitted *)

\* The rows of the sends a step adds to those made, with their output kinds.
RowsSentBetween(before, after) ==
    Flatten([k \in 1..(Len(after) - Len(before)) |->
        [r \in 1..Len(AsRowList(after[Len(before) + k].rows)) |->
            [name |-> after[Len(before) + k].name,
             row |-> AsRowList(after[Len(before) + k].rows)[r]]]])

\* The rows sent so far.
RowsSent == RowsSentBetween(<<>>, fanoutSends)

RECURSIVE SumOfLimits(_)
SumOfLimits(props) ==
    IF props = <<>> THEN 0 ELSE Head(props).prop.limit + SumOfLimits(Tail(props))

\* A row of the total level: the one flat row, or a geo-type row of type total.
IsTotalLevel(row) ==
    output_schema_version = GEO_TYPE_ROW_OUTPUT_SCHEMA_VERSION => row.geo_type = 4

\* C23: when no ceiling trips in an attempt (every property the sample provider
\* returned was added), the exposure value the attempt emits at the total
\* level is the sum of the limits of all the properties returned; it is emitted
\* with the flat schema always and with the geo-type schema when it is not 0.
C23_TotalExposureIsSumOfLimits ==
    [][(/\ pc = "WritingExposures"
        /\ pc' = "GeneratingStorms"
        /\ \A i \in 1..Len(provided) : provided[i].added) =>
          LET sent == RowsSentBetween(fanoutSends, fanoutSends')
              totals == {k \in 1..Len(sent) : /\ sent[k].name = OUTPUT_EXPOSURES
                                              /\ IsTotalLevel(sent[k].row)}
          IN /\ \A k \in totals : sent[k].row.total = SumOfLimits(provided)
             /\ (\/ output_schema_version = FLAT_ROW_OUTPUT_SCHEMA_VERSION
                 \/ SumOfLimits(provided) # 0) => totals # {}]_vars

\* Properties of 100000 and 200000 were returned and added, and 300000 sent as
\* the total exposure.
C23_Witness ==
    /\ pc = "GeneratingStorms"
    /\ Len(provided) = 2
    /\ provided[1].added /\ provided[2].added
    /\ provided[1].prop.limit = 100000 /\ provided[2].prop.limit = 200000
    /\ \E k \in 1..Len(RowsSent) :
          /\ RowsSent[k].name = OUTPUT_EXPOSURES
          /\ IsTotalLevel(RowsSent[k].row)
          /\ RowsSent[k].row.total = 300000

\* The aggregate of a dictionary a geo-type row is about.
AggregateOf(dictionary, row) ==
    IF row.geo_type = 4 THEN dictionary.total
    ELSE ValueAt(dictionary, <<CASE row.geo_type = 1 -> "state"
                                 [] row.geo_type = 2 -> "county"
                                 [] row.geo_type = 3 -> "zip", row.geography>>)

\* C24: with the geo-type schema every row sent under premiums carries the
\* premium aggregate of its geography, the total-level row included (which is
\* sent when premiums were collected), and every row sent under exposures
\* carries the exposure aggregate of its geography; stated for the rows of the
\* first attempt once its exposures and premiums are written.
C24_PremiumRowsCarryPremiums ==
    (/\ output_schema_version = GEO_TYPE_ROW_OUTPUT_SCHEMA_VERSION
     /\ attempt = 1
     /\ pc = "GeneratingStorms") =>
        /\ \A k \in 1..Len(RowsSent) :
              /\ RowsSent[k].name = OUTPUT_PREMIUMS =>
                    RowsSent[k].row.total = AggregateOf(premium_dictionary, RowsSent[k].row)
              /\ RowsSent[k].name = OUTPUT_EXPOSURES =>
                    RowsSent[k].row.total = AggregateOf(exposure_dictionary, RowsSent[k].row)
        /\ premium_dictionary.total # 0 =>
              \E k \in 1..Len(RowsSent) :
                  /\ RowsSent[k].name = OUTPUT_PREMIUMS
                  /\ RowsSent[k].row.geo_type = 4

\* No storm of the attempt damaged a sampled property.
NoEventIntersects ==
    \A i \in 1..Len(storms) : ~storms[i].coordinates \/ storms[i].within = {}

\* C25: with the geo-type schema no step of run_losses sends a row whose value
\* is zero, for any output kind; and the losses and NLR emission of an attempt
\* in which no event intersects any sampled property sends no losses row and
\* no NLR row.
C25_NoZeroRowsAndNoLossRowsWithoutDamage ==
    [][output_schema_version = GEO_TYPE_ROW_OUTPUT_SCHEMA_VERSION =>
          LET sent == RowsSentBetween(fanoutSends, fanoutSends')
          IN /\ \A k \in 1..Len(sent) : sent[k].row.total # 0
             /\ (pc = "WritingLosses" /\ NoEventIntersects) =>
                   \A k \in 1..Len(sent) : sent[k].name \notin {OUTPUT_LOSSES, OUTPUT_NLR}]_vars

\* An attempt with the geo-type schema sampled a property, drew a storm that
\* damaged none, and is over; its exposure and premium rows were sent (none for
\* the states, counties and zip codes without property) and no other row.
C25_Witness ==
    /\ output_schema_version = GEO_TYPE_ROW_OUTPUT_SCHEMA_VERSION
    /\ attempt = 1
    /\ pc = "raised"
    /\ Len(phases) = 5
    /\ exposure_dictionary.total # 0
    /\ storms # <<>>
    /\ \E i \in 1..Len(storms) : storms[i].coordinates
    /\ NoEventIntersects
    /\ RowsSent # <<>>
    /\ \A k \in 1..Len(RowsSent) : RowsSent[k].name \in {OUTPUT_EXPOSURES, OUTPUT_PREMIUMS}

-----------------------------------------------------------------------------
(* Properties of LocalCsvWriter *)

\* C26: made with overwrite=False, LocalCsvWriter raises InitializationError,
\* before any file is opened or row written, if the file of one of the four
\* known outputs exists (so that a writer made this way found none of them);
\* made with overwrite=True it asks for no file's existence and is constructed.
C26_ConstructorRefusesExistingFiles ==
    /\ csvState = "initializationError" =>
          /\ ~overwrite
          /\ existing # {}
          /\ openCalls = <<>> /\ csvWriteCalls = <<>>
          /\ \A o \in existing : files[format_filepath(o)] = <<OldLine>>
    /\ (csvState \in {"constructed", "initialized"} /\ ~overwrite) =>
          \A o \in existing : \E i \in 1..Len(openCalls) : openCalls[i] = format_filepath(o)
    /\ (csvState # "notConstructed" /\ overwrite) =>
          /\ csvState \in {"constructed", "initialized"}
          /\ existsCalls = <<>>

\* Only the file of the last known output existed: the constructor asked about
\* the four files and raised.
C26_Witness ==
    /\ csvState = "initializationError"
    /\ ~overwrite
    /\ existing = {OUTPUT_NLR}
    /\ Len(existsCalls) = 4

\* C27: the file of an output kind, <dir>/<storm_type>_<kind>.csv, is opened
\* exactly once, at the first write for the kind; the first line written to it
\* is the header of the column names, then come the data rows in the order in
\* which they were written, and no later write adds a header.
C27_FileOpenedOnceWithHeaderFirst ==
    \A i \in 1..Len(file_writers) :
        LET filepath == file_writers[i].filepath
            lines == files[filepath]
        IN /\ Cardinality({j \in 1..Len(openCalls) : openCalls[j] = filepath}) = 1
           /\ \E o \in Range(ALL_OUTPUTS) :
                 filepath = <<"out", "/", "hail", "_", o, ".csv">>
           /\ lines # <<>>
           /\ lines[1] = HeaderLine(file_writers[i].fieldnames)
           /\ \A j \in 2..Len(lines) :
                 /\ ~lines[j].header
                 /\ j > 2 => lines[j - 1].row < lines[j].row

-----------------------------------------------------------------------------
(* Properties of run_storm_simulation *)

\* What makes the processing of an event fail: the payload, a required field,
\* the making of the Bigquery writer, or the simulation.
EventFails(event) ==
    \/ event.payload # "dict"
    \/ event.sim_id = "absent" \/ event.run_timestamp = "absent"
    \/ /\ event.storm_type \in {"absent", "hail"}
       /\ \/ event.output_bigquery \in {"absent", "true"}
          \/ event.run_losses = "raises"

\* C28: run_storm_simulation never raises; for an event whose payload cannot be
\* decoded, that lacks sim_id or run_timestamp, or whose simulation fails, it
\* returns (the event is consumed) with the error reported through logging.
C28_HandlerNeverRaises ==
    /\ eventPc # "raised"
    /\ eventPc = "returned" =>
          (EventFails(cloud_event) <=>
              \E i \in 1..Len(eventLog) :
                  /\ eventLog[i].level = "ERROR"
                  /\ eventLog[i].message \in {"Failed to process simulation event",
                                              "Simulation failed."})

\* The simulation of a well-formed event that asked for no Bigquery output
\* failed, and the handler returned with the failure logged.
C28_Witness ==
    /\ eventPc = "returned"
    /\ cloud_event.payload = "dict"
    /\ cloud_event.sim_id # "absent" /\ cloud_event.run_timestamp # "absent"
    /\ cloud_event.output_bigquery = "false"
    /\ cloud_event.run_losses = "raises"
    /\ Len(eventLog) = 5
    /\ eventLog[4].message = "Exception from simulation"

-----------------------------------------------------------------------------
(* Properties of run_losses: the county and zip ceilings *)

\* The largest limit among the properties the cursors yielded.
LargestLimit ==
    IF provided = <<>> THEN 0
    ELSE LET i == CHOOSE i \in 1..Len(provided) :
                      \A j \in 1..Len(provided) : provided[j].prop.limit <= provided[i].prop.limit
         IN provided[i].prop.limit

\* C31: within one attempt the exposure aggregated for a county never exceeds
\* county_agg_limit, and the exposure aggregated for a zip code never exceeds
\* zip_agg_limit, by more than the limit of one sampled property.
C31_CountyAndZipExposureWithinCeilings ==
    /\ \A c \in Range(COUNTY_KEYS) :
          exposure_dictionary.county[c] <= county_agg_limit + LargestLimit
    /\ \A z \in Range(ZIP_KEYS) :
          exposure_dictionary.zip[z] <= zip_agg_limit + LargestLimit

\* C32: once the exposure total of an attempt is above total_agg_limit minus the
\* margin, no step of that attempt changes a level of the exposure or premium
\* aggregates: the properties the cursor still yields are not added, and no
\* further state is sampled.
C32_NoAdditionAfterTotalCeiling ==
    [][(/\ attempt' = attempt
        /\ exposure_dictionary.total > total_agg_limit - CEILING_MARGIN)
       => /\ exposure_dictionary' = exposure_dictionary
          /\ premium_dictionary' = premium_dictionary
          /\ exposures' = exposures
          /\ stateIdx' = stateIdx
          /\ pc' # "Sampling"]_vars

C32_Witness ==
    /\ pc = "WritingExposures"
    /\ exposure_dictionary.total > total_agg_limit - CEILING_MARGIN
    /\ provided # <<>>
    /\ ~provided[Len(provided)].added
    /\ stateIdx < Len(states)

-----------------------------------------------------------------------------
(* Properties of run_losses: the four levels of an aggregate *)

RECURSIVE SumOver(_, _)
SumOver(f, keys) ==
    IF keys = <<>> THEN 0 ELSE f[Head(keys)] + SumOver(f, Tail(keys))

LevelsAgree(dictionary) ==
    /\ dictionary.total = SumOver(dictionary.state, STATE_KEYS)
    /\ dictionary.total = SumOver(dictionary.county, COUNTY_KEYS)
    /\ dictionary.total = SumOver(dictionary.zip, ZIP_KEYS)

-----------------------------------------------------------------------------
(* Properties of run_losses: the number of storms *)

\* C34: when the generation of an attempt is over, the storms kept are exactly
\* as many as the number drawn for it (`limit`); a result of generate_polygon
\* that is not a polygon is neither kept nor counted.
C34_KeepsExactlyTheDrawnNumberOfStorms ==
    pc \in {"CalculatingImpact", "WritingLosses", "returned"} => Len(storms) = limit

-----------------------------------------------------------------------------
(* Properties of run_losses: the attempts *)

\* C36: run_losses is given up only after SIMULATION_MAX_RETRIES attempts that
\* all raised, and then fails towards its caller; an attempt that returns is the
\* last one made; as long as neither is the case the call is still going on.
C36_ThreeAttemptsOrOneThatReturns ==
    /\ attempt <= SIMULATION_MAX_RETRIES
    /\ \A i \in 1..Len(attempts) : attempts[i].attempt = i
    /\ \A i \in 1..Len(attempts) - 1 : attempts[i].outcome = "raised"
    /\ pc = "failed" <=>
          /\ Len(attempts) = SIMULATION_MAX_RETRIES
          /\ attempt = SIMULATION_MAX_RETRIES
          /\ attempts[Len(attempts)].outcome = "raised"
          /\ pc # "raised"
    /\ pc = "returned" <=>
          /\ attempts # <<>>
          /\ attempts[Len(attempts)].outcome = "returned"
    /\ pc \in {"returned", "raised", "failed"} => Len(attempts) = attempt
    /\ pc \notin {"returned", "raised", "failed", "notCalled"} => Len(attempts) = attempt - 1

C36_Witness ==
    /\ pc = "failed"
    /\ Len(attempts) = SIMULATION_MAX_RETRIES
    /\ \A i \in 1..Len(attempts) : attempts[i].outcome = "raised"
    /\ \E i \in 1..Len(attempts) : attempts[i].providerFailed

-----------------------------------------------------------------------------
(* Properties of run_losses: the shape of the rows *)

IsFlatRow(row) == "columns" \in DOMAIN row
IsGeoTypeRow(row) == "geo_type" \in DOMAIN row

\* C35: with the flat schema a call of run_losses sends flat rows only, at most
\* one for each output kind and, once it has returned, exactly one for each of
\* the four; with the geo-type schema it sends geo-type rows only.
C35_RowShapeFollowsSchemaVersion ==
    /\ output_schema_version = FLAT_ROW_OUTPUT_SCHEMA_VERSION =>
          /\ \A k \in 1..Len(RowsSent) : IsFlatRow(RowsSent[k].row)
          /\ \A n \in 1..Len(ALL_OUTPUTS) :
                LET sent == {k \in 1..Len(RowsSent) : RowsSent[k].name = ALL_OUTPUTS[n]}
                IN /\ Cardinality(sent) <= 1
                   /\ pc = "returned" => Cardinality(sent) = 1
    /\ output_schema_version = GEO_TYPE_ROW_OUTPUT_SCHEMA_VERSION =>
          \A k \in 1..Len(RowsSent) : IsGeoTypeRow(RowsSent[k].row)

-----------------------------------------------------------------------------
(* Properties of the trigger *)

\* C37: a request whose storm type is not among SUPPORTED_STORM_TYPES is
\* ignored: _trigger_simulations publishes no message for it, and
\* _start_simulation, given such a storm type, does not call run_losses.
C37_UnsupportedStormTypeIsIgnored ==
    /\ (/\ triggerPc = "returned"
        /\ trigger_request.storm_type \notin SUPPORTED_STORM_TYPES \cup {Absent}) =>
          published = <<>>
    /\ eventPc = "simulating" =>
          DataGet(cloud_event.storm_type, DEFAULT_STORM_TYPE) \in SUPPORTED_STORM_TYPES

-----------------------------------------------------------------------------
(* Properties of MultiprocessingOutput: the rows of one send *)

\* The write_rows calls made on a writer, in order.
WriteRowsCallsOn(writer) ==
    SelectSeq(writerCalls, LAMBDA c : c.op = "write_rows" /\ c.writer = writer)

\* The send calls made, in order, by whichever process.
SendCalls == SelectSeq(fanoutSends, LAMBDA s : s.op = "send")

\* C38: with several processes sending on the one output queue, in whatever
\* order their sends and the steps of the output process fall, the rows of one
\* send reach each writer as the rows of one write_rows call, the same rows in
\* the same order under the same output name: no call carries part of a send or
\* rows of two sends, no send reaches a writer twice, and every send dequeued
\* by an output process that no writer has ended has reached every writer.
C38_RowsOfOneSendAreOneWriteRowsCall ==
    LET sends == SendCalls
        taken == {dequeued[d].rows : d \in {e \in 1..Len(dequeued) : ~dequeued[e].isStr}}
    IN \A j \in 1..Len(output_writers) :
          LET calls == WriteRowsCallsOn(output_writers[j])
              handed == [k \in 1..Len(calls) |-> <<calls[k].name, calls[k].rows>>]
          IN /\ \A k \in 1..Len(handed) :
                   \E i \in 1..Len(sends) : handed[k] = <<sends[i].name, sends[i].rows>>
             /\ \A i \in 1..Len(sends) :
                   LET reached == {k \in 1..Len(calls) :
                                      Range(calls[k].rows.items)
                                          \cap Range(sends[i].rows.items) # {}}
                   IN /\ Cardinality(reached) <= 1
                      /\ (consumer # "crashed" /\ sends[i].rows \in taken) =>
                            Cardinality(reached) = 1

C38_Witness ==
    /\ Len(output_writers) = 2
    /\ Len(SendCalls) = 3
    /\ SendCalls[1].by = "trial1" /\ SendCalls[2].by = "trial2" /\ SendCalls[3].by = "trial1"
    /\ \A i \in 1..3 : ~SendCalls[i].rows.isDict
    /\ SendCalls[2].callsBefore > SendCalls[1].callsBefore
    /\ consumer = "running"
    /\ output_queue = <<>>
    /\ Len(WriteRowsCalls) = 6

-----------------------------------------------------------------------------
(* Properties of BufferedOutputStream: a send that raises *)

\* The rows of the add calls, of the send calls, and of the buffer.
RowsAdded == UNION {Range(addCalls[i].rows) : i \in 1..Len(addCalls)}
RowsPassed == UNION {Range(sendCalls[i].rows.items) : i \in 1..Len(sendCalls)}
RowsBuffered == UNION {Range(buffer[i].rows) : i \in 1..Len(buffer)}

\* C39: when a send raises during flush, no row that a send which returned
\* has passed to the fanout is passed to it again by a later flush, that of
\* __exit__ included, and no row still buffered is dropped: every row added
\* was passed to the fanout or is in the buffer.
C39_RaisingSendNeitherRepeatsNorDropsRows ==
    /\ \A a, b \in 1..Len(sendCalls) :
          (a < b /\ ~sendCalls[a].raised) =>
              Range(sendCalls[a].rows.items) \cap Range(sendCalls[b].rows.items) = {}
    /\ RowsAdded \subseteq RowsPassed \cup RowsBuffered

-----------------------------------------------------------------------------
(* Properties of get_logger: the handlers the root logger had before *)

\* C40: once get_logger has returned in a process that was given a logging
\* queue, the root logger of the process has exactly one QueueHandler, whatever
\* handlers it had before, and every record logged through the adapter has
\* been put on the logging queue.
C40_QueueHandlerWhateverTheHandlersBefore ==
    getLoggerCalls # <<>> =>
        /\ Cardinality(QueueHandlers(rootHandlers)) = 1
        /\ \A id \in 1..nextRecord - 1 :
              \E i \in 1..Len(logPuts) : ~logPuts[i].isNone /\ logPuts[i].id = id


=============================================================================
